---- MODULE Spec2Model ----
\* Half-edge mesh storage, the face-centred and vertex-centred circulators of
\* graph/view/face.rs and graph/view/vertex.rs, and the face insertion and
\* removal that build the meshes the circulators walk; and the vertex
\* indexers of primitive/index.rs with the buffers they fill.
EXTENDS Integers, Sequences, FiniteSets, TLC

VARIABLES vertices, edges, faces, nextEdgeKey, nextFaceKey, removals,
          circ, yields, nones,
          hashIndexer, lruIndexer, requested, input, hashOut, lruOut,
          indexed, call

vars == <<vertices, edges, faces, nextEdgeKey, nextFaceKey, removals,
          circ, yields, nones,
          hashIndexer, lruIndexer, requested, input, hashOut, lruOut,
          indexed, call>>

mesh == <<vertices, edges, faces, nextEdgeKey, nextFaceKey, removals>>

\* The circulator in use and what it has given so far.
walk == <<circ, yields, nones>>

\* The indexers, the vertices passed to them, what they returned, and the
\* buffers produced from a polygon stream.
indexing == <<hashIndexer, lruIndexer, requested, input, hashOut, lruOut,
              indexed>>

\* The last mutation called through a view and what came of it.
called == <<call>>

-----------------------------------------------------------------------------
\* Bounds of the model.

\* Vertices inserted by the builder before any face.
NumVertices == 5
\* Faces inserted and removed in one behaviour, taken together.
MaxMutations == 4
\* Times a circulator is seen to return None before it is dropped.
MaxNones == 2
\* Items taken from one circulator before it is dropped.
MaxYields == 6

\* Polygons offered to face insertion: a fan of four triangles around
\* vertex 5, the quad closing it into a pyramid, the two triangles closing
\* 1,2,3,5 into a tetrahedron, and a triangle lying back to back on
\* <<3,2,1>> and sharing two edges with the quad.
Polygons ==
    { <<1, 2, 5>>, <<2, 3, 5>>, <<3, 4, 5>>, <<4, 1, 5>>,
      <<4, 3, 2, 1>>, <<3, 1, 5>>, <<3, 2, 1>>, <<1, 2, 3>> }

-----------------------------------------------------------------------------
\* Option<T>: None is the empty sequence, Some(x) the one-element sequence.

None == << >>
Some(x) == << x >>

\* Result<T, GraphError>, and the panic of unwrap on an Err.
Err(kind) == <<"Err", kind>>
Ok(x) == <<"Ok", x>>
Panic(kind) == <<"Panic", kind>>

\* No mutation has been called through a view since the builder last
\* touched the mesh.
NoCall ==
    [op |-> "none", snapshot |-> "none", replaced |-> FALSE,
     result |-> Ok(None)]

\* Storage::get
Get(store, key) == IF key \in DOMAIN store THEN Some(store[key]) ELSE None

\* Storage::contains_key
ContainsKey(store, key) == key \in DOMAIN store

\* (key, storage).into_view(): Some(key) when the key resolves.
IntoView(store, key) == IF ContainsKey(store, key) THEN Some(key) ELSE None

-----------------------------------------------------------------------------
\* Face-centred circulators (graph/view/face.rs).

Idle == [kind |-> "idle", seed |-> 0, edge |-> None, breadcrumb |-> None,
         hung |-> FALSE]

\* Faulty variants of EdgeCirculator::next of face.rs.
\* The breadcrumb is never cleared: the circulator always advances.
face_EdgeCirculator_next_never_clears(c) ==
    IF c.edge = None \/ c.breadcrumb = None
    THEN [item |-> None, edge |-> c.edge, breadcrumb |-> c.breadcrumb]
    ELSE LET rec == Get(edges, c.edge[1])
         IN  [item |-> c.edge,
              edge |-> IF rec = None THEN None ELSE rec[1].next,
              breadcrumb |-> c.breadcrumb]

\* The last edge is not yielded: the circulator ends as soon as `next` is
\* the breadcrumb.
face_EdgeCirculator_next_stops_early(c) ==
    IF c.edge = None \/ c.breadcrumb = None
    THEN [item |-> None, edge |-> c.edge, breadcrumb |-> c.breadcrumb]
    ELSE LET rec  == Get(edges, c.edge[1])
             next == IF rec = None THEN None ELSE rec[1].next
         IN  IF c.breadcrumb = next
             THEN [item |-> None, edge |-> c.edge, breadcrumb |-> None]
             ELSE [item |-> c.edge, edge |-> next, breadcrumb |-> c.breadcrumb]

\* The current edge is never advanced.
face_EdgeCirculator_next_no_advance(c) ==
    IF c.edge = None \/ c.breadcrumb = None
    THEN [item |-> None, edge |-> c.edge, breadcrumb |-> c.breadcrumb]
    ELSE LET rec  == Get(edges, c.edge[1])
             next == IF rec = None THEN None ELSE rec[1].next
         IN  [item |-> c.edge, edge |-> c.edge,
              breadcrumb |-> IF c.breadcrumb = next THEN None
                             ELSE c.breadcrumb]

\* A circulator whose breadcrumb was cleared gets it back from its current
\* edge when it is asked again.
face_EdgeCirculator_next_rearms(c) ==
    IF c.edge = None
    THEN [item |-> None, edge |-> c.edge, breadcrumb |-> c.breadcrumb]
    ELSE LET edge == c.edge[1]
             rec  == Get(edges, edge)
             next == IF rec = None THEN None ELSE rec[1].next
         IN  IF c.breadcrumb = None
             THEN [item |-> None, edge |-> c.edge, breadcrumb |-> c.edge]
             ELSE IF c.breadcrumb = next
                  THEN [item |-> Some(edge), edge |-> c.edge, breadcrumb |-> None]
                  ELSE [item |-> Some(edge), edge |-> next,
                        breadcrumb |-> c.breadcrumb]

\* The circulator also ends at an edge whose `next` is the edge itself.
face_EdgeCirculator_next_stops_at_self_loop(c) ==
    IF c.edge = None
    THEN [item |-> None, edge |-> c.edge, breadcrumb |-> c.breadcrumb]
    ELSE LET edge == c.edge[1]
             rec  == Get(edges, edge)
             next == IF rec = None THEN None ELSE rec[1].next
         IN  IF c.breadcrumb = None
             THEN [item |-> None, edge |-> c.edge, breadcrumb |-> c.breadcrumb]
             ELSE IF c.breadcrumb = next \/ next = c.edge
                  THEN [item |-> Some(edge), edge |-> c.edge, breadcrumb |-> None]
                  ELSE [item |-> Some(edge), edge |-> next,
                        breadcrumb |-> c.breadcrumb]

\* EdgeCirculator::next of face.rs.  c carries edge and breadcrumb; the
\* result carries the yielded key and the circulator's fields afterwards.
face_EdgeCirculator_next(c) ==
    IF c.edge = None
    THEN [item |-> None, edge |-> c.edge, breadcrumb |-> c.breadcrumb]
    ELSE LET edge == c.edge[1]
             rec  == Get(edges, edge)
             next == IF rec = None THEN None ELSE rec[1].next
         IN  IF c.breadcrumb = None
             THEN [item |-> None, edge |-> c.edge, breadcrumb |-> c.breadcrumb]
             ELSE IF c.breadcrumb = next
                  THEN [item |-> Some(edge), edge |-> c.edge, breadcrumb |-> None]
                  ELSE [item |-> Some(edge), edge |-> next,
                        breadcrumb |-> c.breadcrumb]

\* Faulty variant of VertexCirculator::next of face.rs: the destination of
\* the edge is yielded, not its origin.
face_VertexCirculator_next_destination(c) ==
    LET r    == face_EdgeCirculator_next(c)
        rec  == IF r.item = None THEN None ELSE Get(edges, r.item[1])
        next == IF rec = None \/ rec[1].next = None THEN None
                ELSE Get(edges, rec[1].next[1])
    IN  [item |-> IF next = None THEN None ELSE Some(next[1].vertex),
         edge |-> r.edge, breadcrumb |-> r.breadcrumb]

\* VertexCirculator::next of face.rs: the origin vertex of the edge the input
\* edge circulator yields.
face_VertexCirculator_next(c) ==
    LET r    == face_EdgeCirculator_next(c)
        rec  == IF r.item = None THEN None ELSE Get(edges, r.item[1])
    IN  [item |-> IF rec = None THEN None ELSE Some(rec[1].vertex),
         edge |-> r.edge, breadcrumb |-> r.breadcrumb]

\* The face behind an edge record: edge.opposite resolved, then its face.
OppositeFace(rec) ==
    LET opposite == IF rec.opposite = None THEN None
                    ELSE Get(edges, rec.opposite[1])
    IN  IF opposite = None THEN None ELSE opposite[1].face

\* Faulty variants of the loop of FaceCirculator::next of face.rs.
\* The loop ends at the first edge that has no face behind it.
face_FaceCirculator_loop_stops_at_skip(c, fuel) ==
    LET r   == face_EdgeCirculator_next(c)
        rec == IF r.item = None THEN None ELSE Get(edges, r.item[1])
    IN  [item |-> IF rec = None THEN None ELSE OppositeFace(rec[1]),
         edge |-> r.edge, breadcrumb |-> r.breadcrumb, diverged |-> FALSE]

\* The face of the edge itself is yielded, not the face of its opposite.
face_FaceCirculator_loop_own_face(c, fuel) ==
    LET r   == face_EdgeCirculator_next(c)
        rec == IF r.item = None THEN None ELSE Get(edges, r.item[1])
    IN  [item |-> IF rec = None THEN None ELSE rec[1].face,
         edge |-> r.edge, breadcrumb |-> r.breadcrumb, diverged |-> FALSE]

\* The while-let loop of FaceCirculator::next of face.rs.  fuel counts the
\* iterations left before the loop is known to repeat a circulator state,
\* which means it never returns.
RECURSIVE face_FaceCirculator_loop(_, _)
face_FaceCirculator_loop(c, fuel) ==
    LET r   == face_EdgeCirculator_next(c)
        rec == IF r.item = None THEN None ELSE Get(edges, r.item[1])
        c2  == [edge |-> r.edge, breadcrumb |-> r.breadcrumb]
    IN  IF rec = None
        THEN [item |-> None, edge |-> r.edge, breadcrumb |-> r.breadcrumb,
              diverged |-> FALSE]
        ELSE IF OppositeFace(rec[1]) # None
             THEN [item |-> OppositeFace(rec[1]), edge |-> r.edge,
                   breadcrumb |-> r.breadcrumb, diverged |-> FALSE]
             ELSE IF fuel = 0
                  THEN [item |-> None, edge |-> r.edge,
                        breadcrumb |-> r.breadcrumb, diverged |-> TRUE]
                  ELSE face_FaceCirculator_loop(c2, fuel - 1)

\* FaceCirculator::next of face.rs.
face_FaceCirculator_next(c) ==
    face_FaceCirculator_loop(c, Cardinality(DOMAIN edges) + 1)

-----------------------------------------------------------------------------
\* Vertex-centred circulators (graph/view/vertex.rs).  The field edge of the
\* circulator record holds `outgoing`.

\* Faulty variants of EdgeCirculator::next of vertex.rs.
\* The outgoing edge is yielded, not its opposite.
vertex_EdgeCirculator_next_yields_outgoing(c) ==
    LET same     == [item |-> None, edge |-> c.edge, breadcrumb |-> c.breadcrumb]
        out      == IF c.edge = None THEN None ELSE Get(edges, c.edge[1])
        incoming == IF out = None THEN None ELSE out[1].opposite
        inrec    == IF incoming = None THEN None ELSE Get(edges, incoming[1])
    IN  IF inrec = None \/ c.breadcrumb = None
        THEN same
        ELSE IF c.breadcrumb = inrec[1].next
             THEN [item |-> c.edge, edge |-> c.edge, breadcrumb |-> None]
             ELSE [item |-> c.edge, edge |-> inrec[1].next,
                   breadcrumb |-> c.breadcrumb]

\* At an outgoing edge without opposite the outgoing edge itself is yielded
\* and the circulation ends with the step after.
vertex_EdgeCirculator_next_boundary_wraps(c) ==
    LET same     == [item |-> None, edge |-> c.edge, breadcrumb |-> c.breadcrumb]
        out      == IF c.edge = None THEN None ELSE Get(edges, c.edge[1])
        incoming == IF out = None THEN None ELSE out[1].opposite
        inrec    == IF incoming = None THEN None ELSE Get(edges, incoming[1])
    IN  IF out = None \/ c.breadcrumb = None
        THEN same
        ELSE IF inrec = None
        THEN [item |-> c.edge, edge |-> c.edge, breadcrumb |-> None]
        ELSE IF c.breadcrumb = inrec[1].next
             THEN [item |-> incoming, edge |-> c.edge, breadcrumb |-> None]
             ELSE [item |-> incoming, edge |-> inrec[1].next,
                   breadcrumb |-> c.breadcrumb]

\* The breadcrumb is never cleared: the walk goes round again.
vertex_EdgeCirculator_next_never_clears(c) ==
    LET same     == [item |-> None, edge |-> c.edge, breadcrumb |-> c.breadcrumb]
        out      == IF c.edge = None THEN None ELSE Get(edges, c.edge[1])
        incoming == IF out = None THEN None ELSE out[1].opposite
        inrec    == IF incoming = None THEN None ELSE Get(edges, incoming[1])
    IN  IF inrec = None \/ c.breadcrumb = None
        THEN same
        ELSE [item |-> incoming, edge |-> inrec[1].next,
              breadcrumb |-> c.breadcrumb]

\* EdgeCirculator::next of vertex.rs.
vertex_EdgeCirculator_next(c) ==
    LET same     == [item |-> None, edge |-> c.edge, breadcrumb |-> c.breadcrumb]
        out      == IF c.edge = None THEN None ELSE Get(edges, c.edge[1])
        incoming == IF out = None THEN None ELSE out[1].opposite
        inrec    == IF incoming = None THEN None ELSE Get(edges, incoming[1])
    IN  IF inrec = None \/ c.breadcrumb = None
        THEN same
        ELSE LET outgoing == inrec[1].next
             IN  IF c.breadcrumb = outgoing
                 THEN [item |-> incoming, edge |-> c.edge, breadcrumb |-> None]
                 ELSE [item |-> incoming, edge |-> outgoing,
                       breadcrumb |-> c.breadcrumb]

\* Faulty variant of the loop of FaceCirculator::next of vertex.rs: the
\* loop ends at the first incoming edge that has no face.
vertex_FaceCirculator_loop_stops_at_skip(c, fuel) ==
    LET r    == vertex_EdgeCirculator_next(c)
        rec  == IF r.item = None THEN None ELSE Get(edges, r.item[1])
    IN  [item |-> IF rec = None THEN None ELSE rec[1].face,
         edge |-> r.edge, breadcrumb |-> r.breadcrumb, diverged |-> FALSE]

\* The while-let loop of FaceCirculator::next of vertex.rs.
RECURSIVE vertex_FaceCirculator_loop(_, _)
vertex_FaceCirculator_loop(c, fuel) ==
    LET r    == vertex_EdgeCirculator_next(c)
        rec  == IF r.item = None THEN None ELSE Get(edges, r.item[1])
        face == IF rec = None THEN None ELSE rec[1].face
        c2   == [edge |-> r.edge, breadcrumb |-> r.breadcrumb]
    IN  IF r.item = None
        THEN [item |-> None, edge |-> r.edge, breadcrumb |-> r.breadcrumb,
              diverged |-> FALSE]
        ELSE IF face # None
             THEN [item |-> face, edge |-> r.edge,
                   breadcrumb |-> r.breadcrumb, diverged |-> FALSE]
             ELSE IF fuel = 0
                  THEN [item |-> None, edge |-> r.edge,
                        breadcrumb |-> r.breadcrumb, diverged |-> TRUE]
                  ELSE vertex_FaceCirculator_loop(c2, fuel - 1)

\* FaceCirculator::next of vertex.rs.
vertex_FaceCirculator_next(c) ==
    vertex_FaceCirculator_loop(c, Cardinality(DOMAIN edges) + 1)

-----------------------------------------------------------------------------
\* Mutation of the mesh: face insertion and face removal.

VertexKeys == 1 .. NumVertices

\* The number of faces inserted and removed so far.
Mutations == (nextFaceKey - 1) + removals

\* The half-edges from u to v: origin u, and the origin of `next` is v.
EdgesBetween(u, v) ==
    { k \in DOMAIN edges :
        /\ edges[k].vertex = u
        /\ edges[k].next # None
        /\ edges[k].next[1] \in DOMAIN edges
        /\ edges[edges[k].next[1]].vertex = v }

Successor(i, n) == (i % n) + 1

\* FaceInsertCache::snapshot: at least three vertices, all existing and
\* pairwise distinct, and no half-edge of the loop already has a face.
InsertFaceSnapshot(vs) ==
    LET n == Len(vs)
    IN  IF n < 3 THEN "ArityConflict"
        ELSE IF \E i \in 1 .. n : vs[i] \notin DOMAIN vertices
        THEN "TopologyNotFound"
        ELSE IF \E i, j \in 1 .. n : i # j /\ vs[i] = vs[j]
        THEN "TopologyMalformed"
        ELSE IF \E i \in 1 .. n :
                  \E k \in EdgesBetween(vs[i], vs[Successor(i, n)]) :
                      edges[k].face # None
        THEN "TopologyConflict"
        ELSE "Ok"

\* The plan of insert_face: reuse or create the half-edge of each
\* consecutive pair, link new half-edges to existing reverse half-edges, give
\* every half-edge of the loop the new face, wire `next` around the loop, and
\* set the outgoing edge of origin vertices that have none.
InsertFace(vs) ==
    /\ circ.kind = "idle"
    /\ Mutations < MaxMutations
    /\ InsertFaceSnapshot(vs) = "Ok"
    /\ LET n        == Len(vs)
           reused(i) == EdgesBetween(vs[i], vs[Successor(i, n)])
           fresh(i) == Cardinality({ j \in 1 .. i : reused(j) = {} })
           key(i)   == IF reused(i) # {}
                       THEN CHOOSE k \in reused(i) : TRUE
                       ELSE nextEdgeKey + fresh(i) - 1
           reverse(i) == EdgesBetween(vs[Successor(i, n)], vs[i])
           loop     == { key(i) : i \in 1 .. n }
           index(k) == CHOOSE i \in 1 .. n : key(i) = k
           linked(k) == { i \in 1 .. n : reused(i) = {} /\ k \in reverse(i) }
           record(i) ==
               [vertex   |-> vs[i],
                opposite |-> IF reused(i) # {} THEN edges[key(i)].opposite
                             ELSE IF reverse(i) # {}
                                  THEN Some(CHOOSE k \in reverse(i) : TRUE)
                                  ELSE None,
                next     |-> Some(key(Successor(i, n))),
                face     |-> Some(nextFaceKey)]
       IN  /\ edges' =
                 [k \in DOMAIN edges \cup loop |->
                     IF k \in loop THEN record(index(k))
                     ELSE IF linked(k) # {}
                          THEN [edges[k] EXCEPT
                                  !.opposite =
                                      Some(key(CHOOSE i \in linked(k) : TRUE))]
                          ELSE edges[k]]
           /\ faces' = faces @@ (nextFaceKey :> [edge |-> key(1)])
           /\ vertices' =
                 [v \in DOMAIN vertices |->
                     IF vertices[v].edge = None /\ \E i \in 1 .. n : vs[i] = v
                     THEN [vertices[v] EXCEPT
                             !.edge = Some(key(CHOOSE i \in 1 .. n : vs[i] = v))]
                     ELSE vertices[v]]
           /\ nextEdgeKey' = nextEdgeKey + fresh(n)
           /\ nextFaceKey' = nextFaceKey + 1
    /\ call' = NoCall
    /\ UNCHANGED <<removals, circ, yields, nones, indexing>>

\* Removal of a face: the face record is removed and its half-edges lose
\* their face; the half-edges and their links stay.
RemoveFace(f) ==
    /\ circ.kind = "idle"
    /\ Mutations < MaxMutations
    /\ f \in DOMAIN faces
    /\ faces' = [k \in DOMAIN faces \ {f} |-> faces[k]]
    /\ edges' = [k \in DOMAIN edges |->
                    IF edges[k].face = Some(f)
                    THEN [edges[k] EXCEPT !.face = None]
                    ELSE edges[k]]
    /\ removals' = removals + 1
    /\ call' = NoCall
    /\ UNCHANGED <<vertices, nextEdgeKey, nextFaceKey, circ, yields, nones,
                   indexing>>

-----------------------------------------------------------------------------
\* Construction of the circulators.

\* From<FaceView> for EdgeCirculator of face.rs: edge and breadcrumb both
\* start at the face's edge.
Circulate(kind, f) ==
    /\ circ.kind = "idle"
    /\ f \in DOMAIN faces
    /\ circ' = [kind |-> kind, seed |-> f, edge |-> Some(faces[f].edge),
                breadcrumb |-> Some(faces[f].edge), hung |-> FALSE]
    /\ yields' = << >>
    /\ nones' = 0
    /\ UNCHANGED <<mesh, indexing, called>>

\* EdgeCirculator::from_keyed_storage of vertex.rs: outgoing and breadcrumb
\* both start at the vertex's edge, which may be absent.
CirculateVertex(kind, v) ==
    /\ circ.kind = "idle"
    /\ v \in DOMAIN vertices
    /\ circ' = [kind |-> kind, seed |-> v, edge |-> vertices[v].edge,
                breadcrumb |-> vertices[v].edge, hung |-> FALSE]
    /\ yields' = << >>
    /\ nones' = 0
    /\ UNCHANGED <<mesh, indexing, called>>

\* FaceView::interior_edges
interior_edges(f) == Circulate("interior_edges", f)
\* FaceView::interior_orphan_edges
interior_orphan_edges(f) == Circulate("interior_orphan_edges", f)
\* FaceView::vertices
face_vertices(f) == Circulate("vertices", f)
\* FaceView::neighboring_faces
neighboring_faces(f) == Circulate("neighboring_faces", f)
\* FaceView::neighboring_orphan_faces
neighboring_orphan_faces(f) == Circulate("neighboring_orphan_faces", f)
\* VertexView::incoming_edges
incoming_edges(v) == CirculateVertex("incoming_edges", v)
\* VertexView::neighboring_faces
vertex_neighboring_faces(v) == CirculateVertex("vertex_neighboring_faces", v)

-----------------------------------------------------------------------------
\* One call of Iterator::next on the circulator in use.

\* The caller takes the item r.item, resolved against store as into_view
\* does, and the circulator keeps the fields of r.
Take(r, store) ==
    LET item == IF r.item = None THEN None ELSE IntoView(store, r.item[1])
    IN  /\ ~circ.hung
        /\ nones < MaxNones
        /\ Len(yields) < MaxYields
        /\ circ' = [circ EXCEPT !.edge = r.edge, !.breadcrumb = r.breadcrumb]
        /\ IF item = None
           THEN nones' = nones + 1 /\ yields' = yields
           ELSE nones' = nones /\ yields' = Append(yields, item[1])
        /\ UNCHANGED <<mesh, indexing, called>>

\* A call that never returns: the caller gets nothing and goes no further.
Hang ==
    /\ ~circ.hung
    /\ circ' = [circ EXCEPT !.hung = TRUE]
    /\ UNCHANGED <<mesh, yields, nones, indexing, called>>

\* Iterator for EdgeCirculator<&M, G> of face.rs
EdgeCirculator_Iterator_next ==
    /\ circ.kind = "interior_edges"
    /\ Take(face_EdgeCirculator_next(circ), edges)

\* Iterator for EdgeCirculator<&mut M, G> of face.rs
EdgeCirculator_IteratorMut_next ==
    /\ circ.kind = "interior_orphan_edges"
    /\ Take(face_EdgeCirculator_next(circ), edges)

\* Iterator for VertexCirculator<&M, G> of face.rs
VertexCirculator_Iterator_next ==
    /\ circ.kind = "vertices"
    /\ Take(face_VertexCirculator_next(circ), vertices)

\* Iterator for FaceCirculator<&M, G> of face.rs
FaceCirculator_Iterator_next ==
    /\ circ.kind = "neighboring_faces"
    /\ LET r == face_FaceCirculator_next(circ)
       IN  IF r.diverged THEN Hang ELSE Take(r, faces)

\* Iterator for FaceCirculator<&mut M, G> of face.rs
FaceCirculator_IteratorMut_next ==
    /\ circ.kind = "neighboring_orphan_faces"
    /\ LET r == face_FaceCirculator_next(circ)
       IN  IF r.diverged THEN Hang ELSE Take(r, faces)

\* Iterator for EdgeCirculator<&M, G, C> of vertex.rs
vertex_EdgeCirculator_Iterator_next ==
    /\ circ.kind = "incoming_edges"
    /\ Take(vertex_EdgeCirculator_next(circ), edges)

\* Iterator for FaceCirculator<&M, G, C> of vertex.rs
vertex_FaceCirculator_Iterator_next ==
    /\ circ.kind = "vertex_neighboring_faces"
    /\ LET r == vertex_FaceCirculator_next(circ)
       IN  IF r.diverged THEN Hang ELSE Take(r, faces)

\* The circulator goes out of scope and the storage can be mutated again.
Drop ==
    /\ circ.kind # "idle"
    /\ ~circ.hung
    /\ circ' = Idle
    /\ yields' = << >>
    /\ nones' = 0
    /\ UNCHANGED <<mesh, indexing, called>>

-----------------------------------------------------------------------------
\* Vertex indexers (primitive/index.rs).  A vertex carries the key the
\* indexers compare and an identity of its own, so that two vertices with
\* equal keys are still told apart.

\* The keying function passed to index: the vertex's key.
key_fn(v) == v.key

\* HashIndexer::default: an empty map and the counter at zero.
HashIndexer_default == [hash |-> [k \in {} |-> 0], n |-> 0]

\* HashIndexer::index, emitting the vertex whether or not the key is known.
HashIndexer_index_always_emits(self, v) ==
    LET key == key_fn(v)
        vacant == key \notin DOMAIN self.hash
        hash == IF vacant THEN (key :> self.n) @@ self.hash ELSE self.hash
    IN  [self |-> [hash |-> hash,
                   n |-> IF vacant THEN self.n + 1 ELSE self.n],
         index |-> hash[key],
         vertex |-> Some(v)]

\* HashIndexer::index, never writing the counter back.
HashIndexer_index_counter_lost(self, v) ==
    LET key == key_fn(v)
        vacant == key \notin DOMAIN self.hash
        hash == IF vacant THEN (key :> self.n) @@ self.hash ELSE self.hash
    IN  [self |-> [hash |-> hash, n |-> self.n],
         index |-> hash[key],
         vertex |-> IF vacant THEN Some(v) ELSE None]

\* HashIndexer::index: the entry of the key, inserted with the counter's
\* value when vacant; the vertex is given back only when it was inserted.
HashIndexer_index(self, v) ==
    LET key == key_fn(v)
        vacant == key \notin DOMAIN self.hash
        hash == IF vacant THEN (key :> self.n) @@ self.hash ELSE self.hash
    IN  [self |-> [hash |-> hash,
                   n |-> IF vacant THEN self.n + 1 ELSE self.n],
         index |-> hash[key],
         vertex |-> IF vacant THEN Some(v) ELSE None]

\* cmp::max
Max(a, b) == IF a >= b THEN a ELSE b

\* LruIndexer::with_capacity, keeping the capacity as requested.
LruIndexer_with_capacity_unfloored(capacity) ==
    [lru |-> << >>, capacity |-> capacity, n |-> 0]

\* LruIndexer::with_capacity
LruIndexer_with_capacity(capacity) ==
    [lru |-> << >>, capacity |-> Max(1, capacity), n |-> 0]

\* The capacity LruIndexer::new asks for.
DefaultCapacity == 16

\* LruIndexer::new
LruIndexer_new == LruIndexer_with_capacity(DefaultCapacity)

\* Vec::remove: the element at position i leaves and the later ones move
\* up (positions count from 1 here, from 0 in the code).
Vec_remove(s, i) == SubSeq(s, 1, i - 1) \o SubSeq(s, i + 1, Len(s))

\* LruIndexer::find: the position and the index of the first entry with
\* the key, if any.
LruIndexer_find(self, key) ==
    LET found == { i \in 1 .. Len(self.lru) : self.lru[i][1] = key }
    IN  IF found = {}
        THEN None
        ELSE LET i == CHOOSE i \in found : \A j \in found : i <= j
             IN  Some(<<i, self.lru[i][2]>>)

\* LruIndexer::index, a hit returning the entry's position in the cache.
LruIndexer_index_hit_returns_position(self, v) ==
    LET key == key_fn(v)
        entry == LruIndexer_find(self, key)
    IN  IF entry # None
        THEN LET vertex == self.lru[entry[1][1]]
             IN  [self |-> [self EXCEPT !.lru =
                               Append(Vec_remove(self.lru, entry[1][1]),
                                      vertex)],
                  index |-> entry[1][1] - 1,
                  vertex |-> None]
        ELSE LET m == self.n
                 kept == IF Len(self.lru) >= self.capacity
                         THEN Vec_remove(self.lru, 1)
                         ELSE self.lru
             IN  [self |-> [lru |-> Append(kept, <<key, m>>),
                            capacity |-> self.capacity,
                            n |-> self.n + 1],
                  index |-> m,
                  vertex |-> Some(v)]

\* LruIndexer::index, a hit leaving the entry where it is.
LruIndexer_index_hit_stays(self, v) ==
    LET key == key_fn(v)
        entry == LruIndexer_find(self, key)
    IN  IF entry # None
        THEN [self |-> self, index |-> entry[1][2], vertex |-> None]
        ELSE LET m == self.n
                 kept == IF Len(self.lru) >= self.capacity
                         THEN Vec_remove(self.lru, 1)
                         ELSE self.lru
             IN  [self |-> [lru |-> Append(kept, <<key, m>>),
                            capacity |-> self.capacity,
                            n |-> self.n + 1],
                  index |-> m,
                  vertex |-> Some(v)]

\* LruIndexer::index, a miss on a full cache handing out the index of the
\* entry it discards.
LruIndexer_index_recycles(self, v) ==
    LET key == key_fn(v)
        entry == LruIndexer_find(self, key)
    IN  IF entry # None
        THEN LET vertex == self.lru[entry[1][1]]
             IN  [self |-> [self EXCEPT !.lru =
                               Append(Vec_remove(self.lru, entry[1][1]),
                                      vertex)],
                  index |-> entry[1][2],
                  vertex |-> None]
        ELSE LET full == Len(self.lru) >= self.capacity /\ self.lru # << >>
                 m == IF full THEN self.lru[1][2] ELSE self.n
                 kept == IF Len(self.lru) >= self.capacity
                         THEN Vec_remove(self.lru, 1)
                         ELSE self.lru
             IN  [self |-> [lru |-> Append(kept, <<key, m>>),
                            capacity |-> self.capacity,
                            n |-> self.n + 1],
                  index |-> m,
                  vertex |-> Some(v)]

\* LruIndexer::index, discarding one entry before the cache is full.
LruIndexer_index_evicts_early(self, v) ==
    LET key == key_fn(v)
        entry == LruIndexer_find(self, key)
    IN  IF entry # None
        THEN LET vertex == self.lru[entry[1][1]]
             IN  [self |-> [self EXCEPT !.lru =
                               Append(Vec_remove(self.lru, entry[1][1]),
                                      vertex)],
                  index |-> entry[1][2],
                  vertex |-> None]
        ELSE LET m == self.n
                 kept == IF Len(self.lru) + 1 >= self.capacity
                         THEN Vec_remove(self.lru, 1)
                         ELSE self.lru
             IN  [self |-> [lru |-> Append(kept, <<key, m>>),
                            capacity |-> self.capacity,
                            n |-> self.n + 1],
                  index |-> m,
                  vertex |-> Some(v)]

\* LruIndexer::index, discarding the newest entry instead of the oldest.
LruIndexer_index_evicts_newest(self, v) ==
    LET key == key_fn(v)
        entry == LruIndexer_find(self, key)
    IN  IF entry # None
        THEN LET vertex == self.lru[entry[1][1]]
             IN  [self |-> [self EXCEPT !.lru =
                               Append(Vec_remove(self.lru, entry[1][1]),
                                      vertex)],
                  index |-> entry[1][2],
                  vertex |-> None]
        ELSE LET m == self.n
                 kept == IF Len(self.lru) >= self.capacity
                         THEN Vec_remove(self.lru, Len(self.lru))
                         ELSE self.lru
             IN  [self |-> [lru |-> Append(kept, <<key, m>>),
                            capacity |-> self.capacity,
                            n |-> self.n + 1],
                  index |-> m,
                  vertex |-> Some(v)]

\* LruIndexer::index, a hit pushing the entry to the back without removing
\* it from where it was.
LruIndexer_index_hit_pushes_copy(self, v) ==
    LET key == key_fn(v)
        entry == LruIndexer_find(self, key)
    IN  IF entry # None
        THEN LET vertex == self.lru[entry[1][1]]
             IN  [self |-> [self EXCEPT !.lru =
                               IF entry[1][1] = Len(self.lru)
                               THEN self.lru
                               ELSE Append(self.lru, vertex)],
                  index |-> entry[1][2],
                  vertex |-> None]
        ELSE LET m == self.n
                 kept == IF Len(self.lru) >= self.capacity
                         THEN Vec_remove(self.lru, 1)
                         ELSE self.lru
             IN  [self |-> [lru |-> Append(kept, <<key, m>>),
                            capacity |-> self.capacity,
                            n |-> self.n + 1],
                  index |-> m,
                  vertex |-> Some(v)]

\* LruIndexer::index, a hit swapping the entry with the one at the back.
LruIndexer_index_hit_swaps(self, v) ==
    LET key == key_fn(v)
        entry == LruIndexer_find(self, key)
    IN  IF entry # None
        THEN LET at == entry[1][1]
                 last == Len(self.lru)
             IN  [self |-> [self EXCEPT !.lru =
                               [i \in 1 .. last |->
                                   IF i = at THEN self.lru[last]
                                   ELSE IF i = last THEN self.lru[at]
                                   ELSE self.lru[i]]],
                  index |-> entry[1][2],
                  vertex |-> None]
        ELSE LET m == self.n
                 kept == IF Len(self.lru) >= self.capacity
                         THEN Vec_remove(self.lru, 1)
                         ELSE self.lru
             IN  [self |-> [lru |-> Append(kept, <<key, m>>),
                            capacity |-> self.capacity,
                            n |-> self.n + 1],
                  index |-> m,
                  vertex |-> Some(v)]

\* LruIndexer::index.  A hit moves the entry to the back and returns its
\* index without the vertex; a miss takes the counter's value, drops the
\* front entry when the cache is full, pushes the new entry and returns the
\* vertex.
LruIndexer_index(self, v) ==
    LET key == key_fn(v)
        entry == LruIndexer_find(self, key)
    IN  IF entry # None
        THEN LET vertex == self.lru[entry[1][1]]
             IN  [self |-> [self EXCEPT !.lru =
                               Append(Vec_remove(self.lru, entry[1][1]),
                                      vertex)],
                  index |-> entry[1][2],
                  vertex |-> None]
        ELSE LET m == self.n
                 kept == IF Len(self.lru) >= self.capacity
                         THEN Vec_remove(self.lru, 1)
                         ELSE self.lru
             IN  [self |-> [lru |-> Append(kept, <<key, m>>),
                            capacity |-> self.capacity,
                            n |-> self.n + 1],
                  index |-> m,
                  vertex |-> Some(v)]

\* Indexer::index on either kind of indexer.
Indexer_index(self, v) ==
    IF "hash" \in DOMAIN self
    THEN HashIndexer_index(self, v)
    ELSE LruIndexer_index(self, v)

\* What one call gave back to its caller.
Returned(r) == [index |-> r.index, vertex |-> r.vertex]

\* The closure index_vertices_with maps over one polygon, pushing every
\* vertex to the vertex buffer whether or not the indexer gave it back.
RECURSIVE map_vertices_into_index_pushes_all(_, _, _)
map_vertices_into_index_pushes_all(topology, i, acc) ==
    IF i > Len(topology)
    THEN acc
    ELSE LET r == Indexer_index(acc.indexer, topology[i])
         IN  map_vertices_into_index_pushes_all(topology, i + 1,
                [indexer |-> r.self,
                 vertices |-> Append(acc.vertices, topology[i]),
                 polygon |-> Append(acc.polygon, r.index)])

\* The closure index_vertices_with maps over the vertices of one polygon,
\* from vertex i on: each vertex goes to the indexer, is pushed to the
\* vertex buffer when the indexer gives it back, and is replaced by the
\* index.
RECURSIVE map_vertices_into_index(_, _, _)
map_vertices_into_index(topology, i, acc) ==
    IF i > Len(topology)
    THEN acc
    ELSE LET r == Indexer_index(acc.indexer, topology[i])
         IN  map_vertices_into_index(topology, i + 1,
                [indexer |-> r.self,
                 vertices |-> IF r.vertex # None
                              THEN Append(acc.vertices, r.vertex[1])
                              ELSE acc.vertices,
                 polygon |-> Append(acc.polygon, r.index)])

\* The loop of index_vertices_with over the stream, from polygon p on.
RECURSIVE index_vertices_with_loop(_, _, _, _, _)
index_vertices_with_loop(stream, p, indexer, indeces, vertices_) ==
    IF p > Len(stream)
    THEN <<indeces, vertices_>>
    ELSE LET r == map_vertices_into_index(stream[p], 1,
                     [indexer |-> indexer, vertices |-> vertices_,
                      polygon |-> << >>])
         IN  index_vertices_with_loop(stream, p + 1, r.indexer,
                                      Append(indeces, r.polygon), r.vertices)

\* IndexVertices::index_vertices_with: the index buffer and the vertex
\* buffer.
index_vertices_with(stream, indexer) ==
    index_vertices_with_loop(stream, 1, indexer, << >>, << >>)

-----------------------------------------------------------------------------
\* Bounds of the indexing runs.

\* Keys the vertices passed to one indexer are drawn from.
NumKeys == 3
\* Calls of index on one indexer.
MaxCalls == 7
\* Polygons in one stream.
MaxPolygons == 2

Keys == 1 .. NumKeys

\* Capacities an LruIndexer is asked for: none at all, fewer than the keys,
\* and as many as the keys.
Capacities == 0 .. NumKeys

\* Number of vertices of the first p polygons of ps.
RECURSIVE VerticesBefore(_, _)
VerticesBefore(ps, p) ==
    IF p = 0 THEN 0 ELSE VerticesBefore(ps, p - 1) + Len(ps[p])

\* A stream of polygons whose vertices have the keys ps gives, each vertex
\* with an identity of its own.
StreamOf(ps) ==
    [p \in 1 .. Len(ps) |->
        [q \in 1 .. Len(ps[p]) |->
            [key |-> ps[p][q], id |-> VerticesBefore(ps, p - 1) + q]]]

Streams == UNION { [1 .. n -> Polygons] : n \in 0 .. MaxPolygons }

\* Indexers given to index_vertices_with: newly made ones of either kind.
NewIndexers ==
    {HashIndexer_default} \cup { LruIndexer_with_capacity(c) : c \in Capacities }

\* An indexed stream: the stream, the indexer it was given to, and the two
\* buffers that came back.
Indexed(stream, indexer) ==
    LET r == index_vertices_with(stream, indexer)
    IN  [stream |-> stream, indexer |-> indexer,
         indeces |-> r[1], vertices |-> r[2]]

\* One vertex with key k is passed to the HashIndexer and to the LruIndexer.
Indexer_index_call(k) ==
    /\ Len(input) < MaxCalls
    /\ LET v == [key |-> k, id |-> Len(input) + 1]
           h == HashIndexer_index(hashIndexer, v)
           l == LruIndexer_index(lruIndexer, v)
       IN  /\ input' = Append(input, v)
           /\ hashIndexer' = h.self
           /\ hashOut' = Append(hashOut, Returned(h))
           /\ lruIndexer' = l.self
           /\ lruOut' = Append(lruOut, Returned(l))
    /\ UNCHANGED <<mesh, walk, requested, indexed, called>>

\* A polygon stream is indexed with a newly made indexer; the call takes
\* both for itself and gives the buffers back.
index_vertices_with_call(ps, indexer) ==
    /\ indexed = None
    /\ indexed' = Some(Indexed(StreamOf(ps), indexer))
    /\ UNCHANGED <<mesh, walk, hashIndexer, lruIndexer, requested, input,
                   hashOut, lruOut, called>>

-----------------------------------------------------------------------------
\* Mutation transactions on the whole storage: snapshot, replace, plan,
\* commit (FaceView::join, triangulate, extrude and
\* RegionView::get_or_insert_face_with of graph/view/face.rs).  The caches
\* and the plans are not part of these files and follow the design
\* document.

ErrorKinds ==
    { "TopologyNotFound", "TopologyMalformed", "TopologyConflict",
      "ArityConflict", "GeometryInvalid" }

\* The storage of the mesh as one value, as a mutation takes it over.
Storage ==
    [vertices |-> vertices, edges |-> edges, faces |-> faces,
     nextEdgeKey |-> nextEdgeKey, nextFaceKey |-> nextFaceKey,
     removals |-> removals]

\* Default::default() of the storage: no vertex, no edge, no face.
DefaultStorage ==
    [Storage EXCEPT !.vertices = << >>, !.edges = << >>, !.faces = << >>]

\* The storage st becomes the mesh's storage.
Commit(st) ==
    /\ vertices' = st.vertices
    /\ edges' = st.edges
    /\ faces' = st.faces
    /\ nextEdgeKey' = st.nextEdgeKey
    /\ nextFaceKey' = st.nextFaceKey
    /\ removals' = st.removals

\* The half-edges of st met by following `next` from seed until seed comes
\* up again, seed first; empty when the chain breaks or does not come back.
RECURSIVE LoopFrom(_, _, _, _, _)
LoopFrom(st, seed, cur, acc, fuel) ==
    IF cur \notin DOMAIN st.edges \/ fuel = 0 \/ st.edges[cur].next = None
    THEN << >>
    ELSE IF st.edges[cur].next[1] = seed
         THEN Append(acc, cur)
         ELSE LoopFrom(st, seed, st.edges[cur].next[1], Append(acc, cur),
                       fuel - 1)

\* The half-edges around face f of st, from the face's edge on.
FaceLoop(st, f) ==
    LoopFrom(st, st.faces[f].edge, st.faces[f].edge, << >>,
             Cardinality(DOMAIN st.edges))

\* The origins of a sequence of half-edges of st.
Origins(st, loop) == [i \in 1 .. Len(loop) |-> st.edges[loop[i]].vertex]

\* The half-edges of st from u to v.
EdgesBetweenIn(st, u, v) ==
    { k \in DOMAIN st.edges :
        /\ st.edges[k].vertex = u
        /\ st.edges[k].next # None
        /\ st.edges[k].next[1] \in DOMAIN st.edges
        /\ st.edges[st.edges[k].next[1]].vertex = v }

\* FaceInsertCache::snapshot against st.
FaceInsertCache_snapshot(st, vs) ==
    LET n == Len(vs)
    IN  IF n < 3 THEN Err("ArityConflict")
        ELSE IF \E i \in 1 .. n : vs[i] \notin DOMAIN st.vertices
        THEN Err("TopologyNotFound")
        ELSE IF \E i, j \in 1 .. n : i # j /\ vs[i] = vs[j]
        THEN Err("TopologyMalformed")
        ELSE IF \E i \in 1 .. n :
                  \E k \in EdgesBetweenIn(st, vs[i], vs[Successor(i, n)]) :
                      st.edges[k].face # None
        THEN Err("TopologyConflict")
        ELSE Ok(vs)

\* A plan of insert face that gives each new half-edge its opposite but
\* does not tell the opposite.
insert_face_with_cache_one_sided(st, vs) ==
    LET n        == Len(vs)
        reused   == [i \in 1 .. n |->
                        EdgesBetweenIn(st, vs[i], vs[Successor(i, n)])]
        reverse  == [i \in 1 .. n |->
                        EdgesBetweenIn(st, vs[Successor(i, n)], vs[i])]
        fresh    == [i \in 1 .. n |->
                        Cardinality({ j \in 1 .. i : reused[j] = {} })]
        key      == [i \in 1 .. n |->
                        IF reused[i] # {}
                        THEN CHOOSE k \in reused[i] : TRUE
                        ELSE st.nextEdgeKey + fresh[i] - 1]
        loop     == { key[i] : i \in 1 .. n }
        index(k) == CHOOSE i \in 1 .. n : key[i] = k
        record(i) ==
            [vertex   |-> vs[i],
             opposite |-> IF reused[i] # {} THEN st.edges[key[i]].opposite
                          ELSE IF reverse[i] # {}
                               THEN Some(CHOOSE k \in reverse[i] : TRUE)
                               ELSE None,
             next     |-> Some(key[Successor(i, n)]),
             face     |-> Some(st.nextFaceKey)]
    IN  [vertices |->
            [v \in DOMAIN st.vertices |->
                IF st.vertices[v].edge = None /\ \E i \in 1 .. n : vs[i] = v
                THEN [st.vertices[v] EXCEPT
                        !.edge = Some(key[CHOOSE i \in 1 .. n : vs[i] = v])]
                ELSE st.vertices[v]],
         edges |->
            [k \in DOMAIN st.edges \cup loop |->
                IF k \in loop THEN record(index(k)) ELSE st.edges[k]],
         faces |-> st.faces @@ (st.nextFaceKey :> [edge |-> key[1]]),
         nextEdgeKey |-> st.nextEdgeKey + fresh[n],
         nextFaceKey |-> st.nextFaceKey + 1,
         removals |-> st.removals]

\* A plan of insert face that makes a new half-edge for every pair,
\* whether or not there is one already.
insert_face_with_cache_never_reuses(st, vs) ==
    LET n        == Len(vs)
        reused   == [i \in 1 .. n |-> {}]
        reverse  == [i \in 1 .. n |->
                        EdgesBetweenIn(st, vs[Successor(i, n)], vs[i])]
        fresh    == [i \in 1 .. n |->
                        Cardinality({ j \in 1 .. i : reused[j] = {} })]
        key      == [i \in 1 .. n |->
                        IF reused[i] # {}
                        THEN CHOOSE k \in reused[i] : TRUE
                        ELSE st.nextEdgeKey + fresh[i] - 1]
        loop     == { key[i] : i \in 1 .. n }
        index(k) == CHOOSE i \in 1 .. n : key[i] = k
        linked(k) == { i \in 1 .. n : reused[i] = {} /\ k \in reverse[i] }
        record(i) ==
            [vertex   |-> vs[i],
             opposite |-> IF reused[i] # {} THEN st.edges[key[i]].opposite
                          ELSE IF reverse[i] # {}
                               THEN Some(CHOOSE k \in reverse[i] : TRUE)
                               ELSE None,
             next     |-> Some(key[Successor(i, n)]),
             face     |-> Some(st.nextFaceKey)]
    IN  [vertices |->
            [v \in DOMAIN st.vertices |->
                IF st.vertices[v].edge = None /\ \E i \in 1 .. n : vs[i] = v
                THEN [st.vertices[v] EXCEPT
                        !.edge = Some(key[CHOOSE i \in 1 .. n : vs[i] = v])]
                ELSE st.vertices[v]],
         edges |->
            [k \in DOMAIN st.edges \cup loop |->
                IF k \in loop THEN record(index(k))
                ELSE IF linked(k) # {}
                     THEN [st.edges[k] EXCEPT
                             !.opposite =
                                 Some(key[CHOOSE i \in linked(k) : TRUE])]
                     ELSE st.edges[k]],
         faces |-> st.faces @@ (st.nextFaceKey :> [edge |-> key[1]]),
         nextEdgeKey |-> st.nextEdgeKey + fresh[n],
         nextFaceKey |-> st.nextFaceKey + 1,
         removals |-> st.removals]

\* Mutation::insert_face_with_cache: the plan of insert face applied to
\* st; the key of the new face is st.nextFaceKey.
insert_face_with_cache(st, vs) ==
    LET n        == Len(vs)
        reused   == [i \in 1 .. n |->
                        EdgesBetweenIn(st, vs[i], vs[Successor(i, n)])]
        reverse  == [i \in 1 .. n |->
                        EdgesBetweenIn(st, vs[Successor(i, n)], vs[i])]
        fresh    == [i \in 1 .. n |->
                        Cardinality({ j \in 1 .. i : reused[j] = {} })]
        key      == [i \in 1 .. n |->
                        IF reused[i] # {}
                        THEN CHOOSE k \in reused[i] : TRUE
                        ELSE st.nextEdgeKey + fresh[i] - 1]
        loop     == { key[i] : i \in 1 .. n }
        index(k) == CHOOSE i \in 1 .. n : key[i] = k
        linked(k) == { i \in 1 .. n : reused[i] = {} /\ k \in reverse[i] }
        record(i) ==
            [vertex   |-> vs[i],
             opposite |-> IF reused[i] # {} THEN st.edges[key[i]].opposite
                          ELSE IF reverse[i] # {}
                               THEN Some(CHOOSE k \in reverse[i] : TRUE)
                               ELSE None,
             next     |-> Some(key[Successor(i, n)]),
             face     |-> Some(st.nextFaceKey)]
    IN  [vertices |->
            [v \in DOMAIN st.vertices |->
                IF st.vertices[v].edge = None /\ \E i \in 1 .. n : vs[i] = v
                THEN [st.vertices[v] EXCEPT
                        !.edge = Some(key[CHOOSE i \in 1 .. n : vs[i] = v])]
                ELSE st.vertices[v]],
         edges |->
            [k \in DOMAIN st.edges \cup loop |->
                IF k \in loop THEN record(index(k))
                ELSE IF linked(k) # {}
                     THEN [st.edges[k] EXCEPT
                             !.opposite =
                                 Some(key[CHOOSE i \in linked(k) : TRUE])]
                     ELSE st.edges[k]],
         faces |-> st.faces @@ (st.nextFaceKey :> [edge |-> key[1]]),
         nextEdgeKey |-> st.nextEdgeKey + fresh[n],
         nextFaceKey |-> st.nextFaceKey + 1,
         removals |-> st.removals]

\* A removal that winds the face keys back when the face removed is the
\* one made last, so that its key is handed out again.
remove_face_with_cache_rewinds(st, f) ==
    [st EXCEPT
        !.faces = [k \in DOMAIN st.faces \ {f} |-> st.faces[k]],
        !.edges = [k \in DOMAIN st.edges |->
                      IF st.edges[k].face = Some(f)
                      THEN [st.edges[k] EXCEPT !.face = None]
                      ELSE st.edges[k]],
        !.nextFaceKey = IF f = st.nextFaceKey - 1 THEN f
                        ELSE st.nextFaceKey,
        !.removals = st.removals + 1]

\* A removal that takes the half-edges of the face out with the face.
remove_face_with_cache_takes_edges(st, f) ==
    [st EXCEPT
        !.faces = [k \in DOMAIN st.faces \ {f} |-> st.faces[k]],
        !.edges = [k \in { j \in DOMAIN st.edges :
                              st.edges[j].face # Some(f) } |-> st.edges[k]],
        !.removals = st.removals + 1]

\* Mutation::remove_face_with_cache: the face record goes and its
\* half-edges lose their face.
remove_face_with_cache(st, f) ==
    [st EXCEPT
        !.faces = [k \in DOMAIN st.faces \ {f} |-> st.faces[k]],
        !.edges = [k \in DOMAIN st.edges |->
                      IF st.edges[k].face = Some(f)
                      THEN [st.edges[k] EXCEPT !.face = None]
                      ELSE st.edges[k]],
        !.removals = st.removals + 1]

\* A vertex inserted with the half-edge of the lowest key as its outgoing
\* edge, when there is a half-edge.
insert_vertex_with_first_edge(st, position) ==
    [st EXCEPT
        !.vertices = st.vertices @@
            ((Cardinality(DOMAIN st.vertices) + 1) :>
                [edge |-> IF DOMAIN st.edges = {} THEN None
                          ELSE Some(CHOOSE k \in DOMAIN st.edges :
                                      \A j \in DOMAIN st.edges : k <= j),
                 position |-> position])]

\* Mutation::insert_vertex: a vertex at position, without an outgoing edge;
\* its key is the number of vertices afterwards (no vertex is ever removed).
insert_vertex(st, position) ==
    [st EXCEPT
        !.vertices = st.vertices @@
            ((Cardinality(DOMAIN st.vertices) + 1) :>
                [edge |-> None, position |-> position])]

\* One vertex for each of positions, in their order.
RECURSIVE insert_vertices(_, _)
insert_vertices(st, positions) ==
    IF positions = << >> THEN st
    ELSE insert_vertices(insert_vertex(st, Head(positions)), Tail(positions))

\* The faces of polygons, from the i-th on, inserted one after the other
\* into the storage of plan p, each after its own snapshot; the first
\* snapshot that fails ends the plan with its error.
RECURSIVE insert_faces(_, _, _)
insert_faces(p, polygons, i) ==
    IF i > Len(polygons) \/ p.error # None
    THEN p
    ELSE LET cache == FaceInsertCache_snapshot(p.storage, polygons[i])
         IN  IF cache[1] = "Err"
             THEN [p EXCEPT !.error = Some(cache[2])]
             ELSE insert_faces(
                    [storage |-> insert_face_with_cache(p.storage, cache[2]),
                     value |-> Some(p.storage.nextFaceKey),
                     error |-> None],
                    polygons, i + 1)

\* Whether a geometry delegate (centroid, normal) gives an answer.
GeometryResults == { "Ok", "GeometryInvalid" }

\* Vertex geometry is a position on a line, an integer.  The positions of
\* the vertices vs of st, in their order.
Positions(st, vs) == [i \in 1 .. Len(vs) |-> st.vertices[vs[i]].position]

RECURSIVE Sum(_)
Sum(s) == IF s = << >> THEN 0 ELSE Head(s) + Sum(Tail(s))

\* FaceCentroid::centroid: the mean of the positions of the face's
\* vertices, on the line's whole points.
FaceCentroid_centroid(st, vs) == Sum(Positions(st, vs)) \div Len(vs)

\* FaceNormal::normal: the unit vector of the line.
UnitNormal == 1

\* Distances a face is extruded by.
MaxDistance == 1
Distances == 0 .. MaxDistance

\* The elements of a sequence.
Range(s) == { s[i] : i \in 1 .. Len(s) }

\* Where the joined loop goes on from half-edge y: y itself unless it lies
\* on the shared boundary, else what follows its opposite.
RECURSIVE Splice(_, _, _, _)
Splice(st, shared, y, fuel) ==
    IF y \notin shared THEN Some(y)
    ELSE IF fuel = 0 THEN None
    ELSE Splice(st, shared,
                st.edges[st.edges[y].opposite[1]].next[1], fuel - 1)

\* The storage after faces source and destination, with loops a and b,
\* are joined: both faces and the half-edges between them are removed and
\* the rest of the two loops becomes the loop of one new face.  None when
\* the faces have no half-edge between them, when the vertices they have in
\* common are not just the vertices of the boundary between them, or when
\* the rest is not one loop of three or more half-edges.
Joined(st, source, destination, a, b) ==
    LET opp(e) == st.edges[e].opposite
        shared ==
            { e \in Range(a) : opp(e) # None /\ opp(e)[1] \in Range(b) }
            \cup
            { e \in Range(b) : opp(e) # None /\ opp(e)[1] \in Range(a) }
        remaining == (Range(a) \cup Range(b)) \ shared
        common == Range(Origins(st, a)) \cap Range(Origins(st, b))
        nx(k) == Splice(st, shared, st.edges[k].next[1], Cardinality(shared))
        new == st.nextFaceKey
        ab == a \o b
        first == ab[CHOOSE i \in 1 .. Len(ab) :
                       /\ ab[i] \in remaining
                       /\ \A j \in 1 .. i - 1 : ab[j] \notin remaining]
        outgoing(v) ==
            { k \in DOMAIN st.edges \ shared : st.edges[k].vertex = v }
        storage ==
            [vertices |->
                [v \in DOMAIN st.vertices |->
                    IF st.vertices[v].edge # None
                          /\ st.vertices[v].edge[1] \in shared
                    THEN IF outgoing(v) = {}
                         THEN [st.vertices[v] EXCEPT !.edge = None]
                         ELSE [st.vertices[v] EXCEPT
                                 !.edge = Some(CHOOSE k \in outgoing(v) : TRUE)]
                    ELSE st.vertices[v]],
             edges |->
                [k \in DOMAIN st.edges \ shared |->
                    IF k \in remaining
                    THEN [st.edges[k] EXCEPT !.next = nx(k),
                                             !.face = Some(new)]
                    ELSE st.edges[k]],
             faces |->
                [k \in (DOMAIN st.faces \ {source, destination}) \cup {new} |->
                    IF k = new THEN [edge |-> first] ELSE st.faces[k]],
             nextEdgeKey |-> st.nextEdgeKey,
             nextFaceKey |-> new + 1,
             removals |-> st.removals + 2]
    IN  IF shared = {} \/ Cardinality(remaining) < 3
        THEN None
        ELSE IF 2 * Cardinality(common) # Cardinality(shared) + 2
        THEN None
        ELSE IF \E k \in remaining : nx(k) = None
        THEN None
        ELSE IF Len(FaceLoop(storage, new)) # Cardinality(remaining)
        THEN None
        ELSE Some(storage)

\* FaceJoinCache::snapshot: both faces exist, have the same arity, and lie
\* against each other so that their loops can be made one.
FaceJoinCache_snapshot(st, source, destination) ==
    IF source \notin DOMAIN st.faces \/ destination \notin DOMAIN st.faces
    THEN Err("TopologyNotFound")
    ELSE LET a == FaceLoop(st, source)
             b == FaceLoop(st, destination)
         IN  IF a = << >> \/ b = << >>
             THEN Err("TopologyMalformed")
             ELSE IF Len(a) # Len(b)
             THEN Err("ArityConflict")
             ELSE LET joined == Joined(st, source, destination, a, b)
                  IN  IF joined = None
                      THEN Err("TopologyConflict")
                      ELSE Ok([storage |-> joined[1]])

\* A plan of join that leaves the records of the two joined faces in the
\* storage.
join_with_cache_keeps_joined(st, cache) ==
    [storage |-> [cache.storage EXCEPT !.faces = cache.storage.faces @@ st.faces],
     value |-> None, error |-> None]

\* face::join_with_cache: the plan the snapshot prepared; nothing is
\* handed back.
join_with_cache(st, cache) ==
    [storage |-> cache.storage, value |-> None, error |-> None]

\* FaceTriangulateCache::snapshot: the face exists and has three or more
\* edges; for four or more the centroid is asked of the geometry and kept.
FaceTriangulateCache_snapshot(st, abc, centroid) ==
    IF abc \notin DOMAIN st.faces
    THEN Err("TopologyNotFound")
    ELSE LET loop == FaceLoop(st, abc)
         IN  IF loop = << >>
             THEN Err("TopologyMalformed")
             ELSE IF Len(loop) < 3
             THEN Err("ArityConflict")
             ELSE IF Len(loop) > 3 /\ centroid # "Ok"
             THEN Err(centroid)
             ELSE LET vs == Origins(st, loop)
                  IN  Ok([face |-> abc, vertices |-> vs,
                          centroid |-> FaceCentroid_centroid(st, vs)])

\* A plan of triangulate that subdivides a triangle like any other face.
triangulate_with_cache_subdivides_triangle(st, cache) ==
    LET vs == cache.vertices
        n == Len(vs)
        c == Cardinality(DOMAIN st.vertices) + 1
        p == insert_faces(
                [storage |->
                    remove_face_with_cache(
                        insert_vertex(st, cache.centroid), cache.face),
                 value |-> None, error |-> None],
                [i \in 1 .. n |-> <<vs[i], vs[Successor(i, n)], c>>],
                1)
    IN  [p EXCEPT !.value = Some(c)]

\* A plan of triangulate that fans the face out from its first vertex
\* and adds no vertex.
triangulate_with_cache_fans_from_vertex(st, cache) ==
    LET vs == cache.vertices
        n == Len(vs)
    IN  IF n = 3
        THEN [storage |-> st, value |-> None, error |-> None]
        ELSE LET p == insert_faces(
                        [storage |-> remove_face_with_cache(st, cache.face),
                         value |-> None, error |-> None],
                        [i \in 1 .. n - 2 |-> <<vs[1], vs[i + 1], vs[i + 2]>>],
                        1)
             IN  [p EXCEPT !.value = Some(vs[1])]

\* face::triangulate_with_cache: nothing for a triangle; else a vertex at
\* the centroid, the face removed, and one triangle for each of its edges,
\* closed over the new vertex.  The new vertex's key is handed back.
triangulate_with_cache(st, cache) ==
    LET vs == cache.vertices
        n == Len(vs)
        c == Cardinality(DOMAIN st.vertices) + 1
    IN  IF n = 3
        THEN [storage |-> st, value |-> None, error |-> None]
        ELSE LET p == insert_faces(
                        [storage |->
                            remove_face_with_cache(
                                insert_vertex(st, cache.centroid), cache.face),
                         value |-> None, error |-> None],
                        [i \in 1 .. n |-> <<vs[i], vs[Successor(i, n)], c>>],
                        1)
             IN  [p EXCEPT !.value = Some(c)]

\* FaceExtrudeCache::snapshot: the face exists and the geometry gives its
\* normal; the translation, the normal scaled by the distance, and the
\* positions of the face's vertices are kept.
FaceExtrudeCache_snapshot(st, abc, normal, distance) ==
    IF abc \notin DOMAIN st.faces
    THEN Err("TopologyNotFound")
    ELSE LET loop == FaceLoop(st, abc)
         IN  IF loop = << >>
             THEN Err("TopologyMalformed")
             ELSE IF normal # "Ok"
             THEN Err(normal)
             ELSE LET vs == Origins(st, loop)
                  IN  Ok([face |-> abc, vertices |-> vs,
                          positions |-> Positions(st, vs),
                          translation |-> UnitNormal * distance])

\* face::extrude_with_cache: one new vertex for each vertex of the face,
\* at that vertex's position moved by the translation, the face removed, a
\* quad over each of its edges up to the new vertices, and a cap over the
\* new vertices.  The cap's key is handed back.
extrude_with_cache(st, cache) ==
    LET vs == cache.vertices
        n == Len(vs)
        base == Cardinality(DOMAIN st.vertices)
        quads == [i \in 1 .. n |->
                    <<vs[i], vs[Successor(i, n)],
                      base + Successor(i, n), base + i>>]
        cap == [i \in 1 .. n |-> base + i]
        extruded == [i \in 1 .. n |-> cache.positions[i] + cache.translation]
    IN  insert_faces(
            [storage |->
                remove_face_with_cache(insert_vertices(st, extruded),
                                       cache.face),
             value |-> None, error |-> None],
            Append(quads, cap), 1)

\* The vertices a region's vertex circulator gives, collected: c is the
\* circulator, acc what it gave so far.  The collection diverges when the
\* circulator gives more vertices than the storage has half-edges.
RECURSIVE region_vertices_collect(_, _, _)
region_vertices_collect(c, acc, fuel) ==
    IF fuel = 0
    THEN [diverged |-> TRUE, vertices |-> acc]
    ELSE LET r == face_VertexCirculator_next(c)
         IN  IF r.item = None
             THEN [diverged |-> FALSE, vertices |-> acc]
             ELSE region_vertices_collect(
                    [edge |-> r.edge, breadcrumb |-> r.breadcrumb],
                    Append(acc, r.item[1]), fuel - 1)

\* A transaction that goes on past a failed snapshot and reports success
\* without a value.
Transaction_drops_error(op, cache, planned) ==
    IF cache[1] = "Err"
    THEN /\ call' = [op |-> op, snapshot |-> cache[2],
                     replaced |-> FALSE, result |-> Ok(None)]
         /\ UNCHANGED mesh
    ELSE \E p \in {planned} :
             IF p.error # None
             THEN /\ call' = [op |-> op, snapshot |-> "Ok",
                              replaced |-> TRUE, result |-> Panic(p.error[1])]
                  /\ UNCHANGED mesh
             ELSE /\ call' = [op |-> op, snapshot |-> "Ok",
                              replaced |-> TRUE, result |-> Ok(p.value)]
                  /\ Commit(p.storage)

\* A transaction that swaps the default storage in before it looks at the
\* snapshot's result, and leaves it there when the snapshot failed.
Transaction_replaces_first(op, cache, planned) ==
    IF cache[1] = "Err"
    THEN /\ call' = [op |-> op, snapshot |-> cache[2],
                     replaced |-> TRUE, result |-> cache]
         /\ Commit(DefaultStorage)
    ELSE \E p \in {planned} :
             IF p.error # None
             THEN /\ call' = [op |-> op, snapshot |-> "Ok",
                              replaced |-> TRUE, result |-> Panic(p.error[1])]
                  /\ UNCHANGED mesh
             ELSE /\ call' = [op |-> op, snapshot |-> "Ok",
                              replaced |-> TRUE, result |-> Ok(p.value)]
                  /\ Commit(p.storage)

\* The body the four operations share, with cache the snapshot's result
\* and planned what the plan makes of the storage when the snapshot
\* succeeded: `let cache = snapshot(..)?` gives the snapshot's error back
\* at once; else Mutation::replace takes the storage, commit_with applies
\* the plan and commits, or puts the storage back when the plan fails, and
\* unwrap panics on the plan's error.
Transaction(op, cache, planned) ==
    IF cache[1] = "Err"
    THEN /\ call' = [op |-> op, snapshot |-> cache[2],
                     replaced |-> FALSE, result |-> cache]
         /\ UNCHANGED mesh
    ELSE \E p \in {planned} :
             IF p.error # None
             THEN /\ call' = [op |-> op, snapshot |-> "Ok",
                              replaced |-> TRUE, result |-> Panic(p.error[1])]
                  /\ UNCHANGED mesh
             ELSE /\ call' = [op |-> op, snapshot |-> "Ok",
                              replaced |-> TRUE, result |-> Ok(p.value)]
                  /\ Commit(p.storage)

\* join with Mutation::replace called before the snapshot is taken: the
\* default storage stays in the mesh when the snapshot fails.
join_replaces_before_snapshot(source, destination) ==
    /\ circ.kind = "idle"
    /\ source \in DOMAIN faces
    /\ \E storage \in {Storage} :
          \E cache \in {FaceJoinCache_snapshot(storage, source, destination)} :
              Transaction_replaces_first("join", cache,
                                         join_with_cache(storage, cache[2]))
    /\ UNCHANGED <<walk, indexing>>

\* FaceView::join
join(source, destination) ==
    /\ circ.kind = "idle"
    /\ source \in DOMAIN faces
    /\ \E storage \in {Storage} :
          \E cache \in {FaceJoinCache_snapshot(storage, source, destination)} :
              Transaction("join", cache,
                          join_with_cache(storage, cache[2]))
    /\ UNCHANGED <<walk, indexing>>

\* FaceView::triangulate
triangulate(abc, centroid) ==
    /\ circ.kind = "idle"
    /\ abc \in DOMAIN faces
    /\ \E storage \in {Storage} :
          \E cache \in {FaceTriangulateCache_snapshot(storage, abc, centroid)} :
              Transaction("triangulate", cache,
                          triangulate_with_cache(storage, cache[2]))
    /\ UNCHANGED <<walk, indexing>>

\* extrude with its plan applied to the storage that replace left in the
\* mesh, the default one, and not to the storage replace took out.
extrude_plans_on_default(abc, normal, distance) ==
    /\ circ.kind = "idle"
    /\ abc \in DOMAIN faces
    /\ \E storage \in {Storage} :
          \E cache \in {FaceExtrudeCache_snapshot(storage, abc, normal,
                                                  distance)} :
              Transaction("extrude", cache,
                          extrude_with_cache(DefaultStorage, cache[2]))
    /\ UNCHANGED <<walk, indexing>>

\* extrude taking its snapshot with the distance MaxDistance, whatever
\* distance it was called with.
extrude_ignores_distance(abc, normal, distance) ==
    /\ circ.kind = "idle"
    /\ abc \in DOMAIN faces
    /\ \E storage \in {Storage} :
          \E cache \in {FaceExtrudeCache_snapshot(storage, abc, normal,
                                                  MaxDistance)} :
              Transaction("extrude", cache,
                          extrude_with_cache(storage, cache[2]))
    /\ UNCHANGED <<walk, indexing>>

\* extrude handing back a view of the face it was called on, not of the
\* face the plan made.
extrude_returns_source(abc, normal, distance) ==
    /\ circ.kind = "idle"
    /\ abc \in DOMAIN faces
    /\ \E storage \in {Storage} :
          \E cache \in {FaceExtrudeCache_snapshot(storage, abc, normal,
                                                  distance)} :
              Transaction("extrude", cache,
                          [extrude_with_cache(storage, cache[2])
                              EXCEPT !.value = Some(abc)])
    /\ UNCHANGED <<walk, indexing>>

\* FaceView::extrude
extrude(abc, normal, distance) ==
    /\ circ.kind = "idle"
    /\ abc \in DOMAIN faces
    /\ \E storage \in {Storage} :
          \E cache \in {FaceExtrudeCache_snapshot(storage, abc, normal,
                                                  distance)} :
              Transaction("extrude", cache,
                          extrude_with_cache(storage, cache[2]))
    /\ UNCHANGED <<walk, indexing>>

\* get_or_insert_face that does not look for the face of the region and
\* inserts a face over its vertices in any case.
get_or_insert_face_always_inserts(key) ==
    /\ circ.kind = "idle"
    /\ key \in DOMAIN edges
    /\ \E region \in { region_vertices_collect(
                         [edge |-> Some(key), breadcrumb |-> Some(key)],
                         << >>, Cardinality(DOMAIN edges) + 1) } :
         IF region.diverged
         THEN /\ call' = [op |-> "get_or_insert_face",
                          snapshot |-> "none", replaced |-> FALSE,
                          result |-> <<"Diverges", None>>]
              /\ UNCHANGED mesh
         ELSE \E storage \in {Storage} :
                \E cache \in {FaceInsertCache_snapshot(
                                  storage, region.vertices)} :
                    Transaction("get_or_insert_face", cache,
                        [storage |->
                            insert_face_with_cache(storage, cache[2]),
                         value |-> Some(storage.nextFaceKey),
                         error |-> None])
    /\ UNCHANGED <<walk, indexing>>

\* RegionView::get_or_insert_face_with on the region seeded at half-edge
\* key: the face of the region when it has one; else the region's vertices
\* are collected and a face is inserted over them.  A collection that never
\* ends leaves the caller without an answer.
get_or_insert_face(key) ==
    /\ circ.kind = "idle"
    /\ key \in DOMAIN edges
    /\ IF edges[key].face # None
       THEN /\ call' = [op |-> "get_or_insert_face",
                        snapshot |-> "none", replaced |-> FALSE,
                        result |-> Ok(edges[key].face)]
            /\ UNCHANGED mesh
       ELSE \E region \in { region_vertices_collect(
                                [edge |-> Some(key), breadcrumb |-> Some(key)],
                                << >>, Cardinality(DOMAIN edges) + 1) } :
                IF region.diverged
                THEN /\ call' = [op |-> "get_or_insert_face",
                                 snapshot |-> "none", replaced |-> FALSE,
                                 result |-> <<"Diverges", None>>]
                     /\ UNCHANGED mesh
                ELSE \E storage \in {Storage} :
                       \E cache \in {FaceInsertCache_snapshot(
                                         storage, region.vertices)} :
                           Transaction("get_or_insert_face", cache,
                               [storage |->
                                   insert_face_with_cache(storage, cache[2]),
                                value |-> Some(storage.nextFaceKey),
                                error |-> None])
    /\ UNCHANGED <<walk, indexing>>

\* RegionView::from_keyed_storage: the region of half-edge key, with the
\* face of that half-edge, when the key resolves.
RegionView_from_keyed_storage(key) ==
    LET edge == Get(edges, key)
    IN  IF edge # None
        THEN Some([edge |-> key, face |-> edge[1].face])
        ELSE None

\* RegionView::into_face: a view of the region's face when it has one;
\* expect panics when that face does not resolve.
into_face(region) ==
    IF region.face # None
    THEN IF IntoView(faces, region.face[1]) = None
         THEN Panic("expect")
         ELSE Ok(Some(region.face[1]))
    ELSE Ok(None)

\* The payload function of get_or_insert_face_with is called where the
\* arguments of FaceInsertCache::snapshot are evaluated, and nowhere else.
PayloadCalled == call.op = "get_or_insert_face" /\ call.snapshot # "none"

\* The insertion of a face over the vertices vs by the mesh: the snapshot,
\* then the plan in a transaction, as get_or_insert_face_with does for the
\* vertices of a region.  The key of the new face is handed back.
insert_face(vs) ==
    /\ circ.kind = "idle"
    /\ \E storage \in {Storage} :
          \E cache \in {FaceInsertCache_snapshot(storage, vs)} :
              Transaction("insert_face", cache,
                  [storage |-> insert_face_with_cache(storage, cache[2]),
                   value |-> Some(storage.nextFaceKey),
                   error |-> None])
    /\ UNCHANGED <<walk, indexing>>

-----------------------------------------------------------------------------
\* Meshes built from the polygon streams of primitives, as the tests of
\* graph/view/face.rs build them.

\* Cube: six quads over the eight corners, corner (x, y, z) having the key
\* 1 + x + 2y + 4z; every quad counter-clockwise seen from outside.
Cube_polygons ==
    << <<1, 3, 4, 2>>, <<5, 6, 8, 7>>, <<1, 2, 6, 5>>,
       <<4, 3, 7, 8>>, <<1, 5, 7, 3>>, <<2, 4, 8, 6>> >>

\* UvSphere::new(3, 2): six triangles over the poles 1 and 5 and the three
\* vertices 2, 3, 4 of the equator.
UvSphere_polygons ==
    << <<1, 2, 3>>, <<1, 3, 4>>, <<1, 4, 2>>,
       <<5, 3, 2>>, <<5, 4, 3>>, <<5, 2, 4>> >>

\* Two quads that have the edge between 1 and 2 in common and meet again
\* at vertex 4.
Hinge_polygons == << <<1, 2, 3, 4>>, <<2, 1, 5, 4>> >>

\* The polygon streams meshes are built from.
Primitives == { Cube_polygons, UvSphere_polygons, Hinge_polygons }

\* A storage without vertices, edges and faces whose keys start at one.
EmptyStorage ==
    [vertices |-> << >>, edges |-> << >>, faces |-> << >>,
     nextEdgeKey |-> 1, nextFaceKey |-> 1, removals |-> 0]

\* MeshGraph::from_raw_buffers: one vertex for each entry of the vertex
\* buffer, at the entry's position, and one face for each polygon of the
\* index buffer; index i is the vertex with key i + 1.
from_raw_buffers(indeces, vertices_) ==
    insert_faces(
        [storage |->
            insert_vertices(EmptyStorage,
                            [i \in 1 .. Len(vertices_) |-> vertices_[i].key]),
         value |-> None, error |-> None],
        [p \in 1 .. Len(indeces) |->
            [q \in 1 .. Len(indeces[p]) |-> indeces[p][q] + 1]],
        1)

\* The keys of S in increasing order.
RECURSIVE Sorted(_)
Sorted(S) ==
    IF S = {} THEN << >>
    ELSE LET least == CHOOSE x \in S : \A y \in S : x <= y
         IN  <<least>> \o Sorted(S \ {least})

\* The loop of MeshGraph::triangulate over the faces keys[i], keys[i + 1],
\* ..: each face is triangulated through its view, in a transaction of its
\* own, and the first error ends the loop with what was committed before.
RECURSIVE triangulate_each(_, _, _, _, _)
triangulate_each(st, keys, i, centroid, replaced) ==
    IF i > Len(keys)
    THEN [storage |-> st, replaced |-> replaced, result |-> Ok(None)]
    ELSE LET cache == FaceTriangulateCache_snapshot(st, keys[i], centroid)
         IN  IF cache[1] = "Err"
             THEN [storage |-> st, replaced |-> replaced, result |-> cache]
             ELSE LET p == triangulate_with_cache(st, cache[2])
                  IN  IF p.error # None
                      THEN [storage |-> st, replaced |-> TRUE,
                            result |-> Panic(p.error[1])]
                      ELSE triangulate_each(p.storage, keys, i + 1, centroid,
                                            TRUE)

\* MeshGraph::triangulate: every face the graph has when called is
\* triangulated.
MeshGraph_triangulate(centroid) ==
    /\ circ.kind = "idle"
    /\ \E r \in {triangulate_each(Storage, Sorted(DOMAIN faces), 1, centroid,
                                  FALSE)} :
          /\ call' = [op |-> "MeshGraph::triangulate",
                      snapshot |-> IF r.result[1] = "Err" THEN r.result[2]
                                   ELSE "Ok",
                      replaced |-> r.replaced, result |-> r.result]
          /\ Commit(r.storage)
    /\ UNCHANGED <<walk, indexing>>

\* The largest mesh, in vertices, that has a face triangulated or extruded
\* through the face's view.
MaxViewVertices == 5
\* Faces a primitive has had inserted and removed, at most, when two of its
\* faces are joined.
MaxJoinedMutations == 6

-----------------------------------------------------------------------------

\* The builder has inserted the vertices; no face has been inserted yet,
\* and no circulator is in use.
InitMesh ==
    /\ vertices = [v \in VertexKeys |-> [edge |-> None, position |-> v]]
    /\ edges = << >>
    /\ faces = << >>
    /\ nextEdgeKey = 1
    /\ nextFaceKey = 1
    /\ removals = 0
    /\ circ = Idle
    /\ yields = << >>
    /\ nones = 0
    /\ call = NoCall

\* Newly made indexers, the LruIndexer with the capacity asked for; nothing
\* has been passed to them and no stream has been indexed.
InitIndexing(capacity) ==
    /\ hashIndexer = HashIndexer_default
    /\ requested = capacity
    /\ lruIndexer = LruIndexer_with_capacity(capacity)
    /\ input = << >>
    /\ hashOut = << >>
    /\ lruOut = << >>
    /\ indexed = None

Init == InitMesh /\ InitIndexing(DefaultCapacity)

Next ==
    \/ \E vs \in Polygons : InsertFace(vs)
    \/ \E f \in DOMAIN faces : RemoveFace(f)
    \/ \E f \in DOMAIN faces : interior_edges(f)
    \/ \E f \in DOMAIN faces : interior_orphan_edges(f)
    \/ \E f \in DOMAIN faces : face_vertices(f)
    \/ \E f \in DOMAIN faces : neighboring_faces(f)
    \/ \E f \in DOMAIN faces : neighboring_orphan_faces(f)
    \/ \E v \in DOMAIN vertices : incoming_edges(v)
    \/ \E v \in DOMAIN vertices : vertex_neighboring_faces(v)
    \/ EdgeCirculator_Iterator_next
    \/ EdgeCirculator_IteratorMut_next
    \/ VertexCirculator_Iterator_next
    \/ FaceCirculator_Iterator_next
    \/ FaceCirculator_IteratorMut_next
    \/ vertex_EdgeCirculator_Iterator_next
    \/ vertex_FaceCirculator_Iterator_next
    \/ Drop

Spec == Init /\ [][Next]_vars

\* The indexers alone: an LruIndexer of any of the capacities and a
\* HashIndexer are given the same vertices, one call after the other.
InitIndex == InitMesh /\ \E c \in Capacities : InitIndexing(c)

NextIndex == \E k \in Keys : Indexer_index_call(k)

SpecIndex == InitIndex /\ [][NextIndex]_vars

\* Polygon streams indexed into buffers.
NextIndexVertices ==
    \E ps \in Streams, indexer \in NewIndexers :
        index_vertices_with_call(ps, indexer)

SpecIndexVertices == Init /\ [][NextIndexVertices]_vars

\* Mutations through views, on the meshes the builder makes; no more than
\* MaxMutations faces are inserted and removed before the last call.
NextMutation ==
    \/ \E vs \in Polygons : InsertFace(vs)
    \/ \E f \in DOMAIN faces : RemoveFace(f)
    \/ /\ Mutations < MaxMutations
       /\ \E source \in DOMAIN faces, destination \in 1 .. nextFaceKey :
             join(source, destination)
    \/ /\ Mutations < MaxMutations
       /\ \E abc \in DOMAIN faces, centroid \in GeometryResults :
             triangulate(abc, centroid)
    \/ /\ Mutations < MaxMutations
       /\ \E abc \in DOMAIN faces, normal \in GeometryResults :
             extrude(abc, normal, MaxDistance)
    \/ /\ Mutations < MaxMutations
       /\ \E key \in DOMAIN edges : get_or_insert_face(key)

SpecMutation == Init /\ [][NextMutation]_vars

\* The four operations that keep the half-edge invariants, on the meshes
\* they make themselves: no face is removed but by a join, a
\* triangulation or an extrusion.
NextOperation ==
    \/ /\ Mutations < MaxMutations
       /\ \E vs \in Polygons : insert_face(vs)
    \/ /\ Mutations < MaxMutations
       /\ \E source \in DOMAIN faces, destination \in 1 .. nextFaceKey :
             join(source, destination)
    \/ /\ Mutations < MaxMutations
       /\ \E abc \in DOMAIN faces, centroid \in GeometryResults :
             triangulate(abc, centroid)
    \/ /\ Mutations < MaxMutations
       /\ \E abc \in DOMAIN faces, normal \in GeometryResults :
             extrude(abc, normal, MaxDistance)

SpecOperation == Init /\ [][NextOperation]_vars

\* A primitive's polygons have been indexed with a HashIndexer and the mesh
\* built from the buffers.
InitPrimitive ==
    \E polygons \in Primitives :
        \E buffers \in {Indexed(StreamOf(polygons), HashIndexer_default)} :
            \E built \in {from_raw_buffers(buffers.indeces,
                                            buffers.vertices)} :
                /\ built.error = None
                /\ vertices = built.storage.vertices
                /\ edges = built.storage.edges
                /\ faces = built.storage.faces
                /\ nextEdgeKey = built.storage.nextEdgeKey
                /\ nextFaceKey = built.storage.nextFaceKey
                /\ removals = built.storage.removals
                /\ circ = Idle
                /\ yields = << >>
                /\ nones = 0
                /\ call = NoCall
                /\ hashIndexer = HashIndexer_default
                /\ requested = DefaultCapacity
                /\ lruIndexer = LruIndexer_with_capacity(DefaultCapacity)
                /\ input = << >>
                /\ hashOut = << >>
                /\ lruOut = << >>
                /\ indexed = Some(buffers)

\* Mutations of the meshes of the primitives: all faces are triangulated,
\* faces of the small meshes are triangulated and extruded through their
\* views, and faces of the primitive as built are joined.
NextPrimitive ==
    \/ \E centroid \in GeometryResults : MeshGraph_triangulate(centroid)
    \/ /\ Cardinality(DOMAIN vertices) <= MaxViewVertices
       /\ \E abc \in DOMAIN faces, centroid \in GeometryResults :
             triangulate(abc, centroid)
    \/ /\ Cardinality(DOMAIN vertices) <= MaxViewVertices
       /\ \E abc \in DOMAIN faces, normal \in GeometryResults,
             distance \in Distances :
             extrude(abc, normal, distance)
    \/ /\ Mutations <= MaxJoinedMutations
       /\ \E source \in DOMAIN faces, destination \in 1 .. nextFaceKey :
             join(source, destination)

SpecPrimitive == InitPrimitive /\ [][NextPrimitive]_vars

-----------------------------------------------------------------------------
\* The mesh read directly, without the circulators: what the properties
\* below compare the circulators against.

EdgeKeys == DOMAIN edges

HasNext(e) == e \in EdgeKeys /\ edges[e].next # None
                /\ edges[e].next[1] \in EdgeKeys
HasOpposite(e) == e \in EdgeKeys /\ edges[e].opposite # None
                    /\ edges[e].opposite[1] \in EdgeKeys

NextOf(e) == edges[e].next[1]
OppositeOf(e) == edges[e].opposite[1]

\* The edges met by following `next` from seed until seed comes up again,
\* seed first; empty when the chain breaks or never comes back to seed.
RECURSIVE RefWalkLoop(_, _, _)
RefWalkLoop(seed, cur, acc) ==
    IF ~HasNext(cur) \/ Len(acc) >= Cardinality(EdgeKeys)
    THEN << >>
    ELSE IF NextOf(cur) = seed
         THEN Append(acc, cur)
         ELSE RefWalkLoop(seed, NextOf(cur), Append(acc, cur))

\* The edges around f in `next` order from f.edge, and arity(f).
RefInteriorEdges(f) == RefWalkLoop(faces[f].edge, faces[f].edge, << >>)

RefArity(f) == Len(RefInteriorEdges(f))

\* The face on the other side of e, as a set: empty when e has no opposite
\* or the opposite has no face.
RefOppositeFace(e) ==
    IF HasOpposite(e) /\ edges[OppositeOf(e)].face # None
    THEN { edges[OppositeOf(e)].face[1] }
    ELSE {}

\* The faces on the other side of the edges es[from..], in order.
RECURSIVE RefFacesBehind(_, _)
RefFacesBehind(es, from) ==
    IF from > Len(es) THEN << >>
    ELSE LET here == RefOppositeFace(es[from])
         IN  (IF here = {} THEN << >> ELSE << CHOOSE f \in here : TRUE >>)
                 \o RefFacesBehind(es, from + 1)

RefNeighboringFaces(f) == RefFacesBehind(RefInteriorEdges(f), 1)

\* The walk around a vertex: out_0 = seed, out_(i+1) = next(opposite(out_i)).
\* outs lists the outgoing edges that have an opposite, in walk order; end
\* tells how the walk ends: "closed" back at seed, "stall" at an outgoing
\* edge without opposite, "broken" at an incoming edge without next, or
\* "cycle" when it goes on forever without meeting seed again.
RECURSIVE RefWalkRing(_, _, _)
RefWalkRing(seed, out, acc) ==
    IF Len(acc) > Cardinality(EdgeKeys)
    THEN [outs |-> acc, end |-> "cycle"]
    ELSE IF ~HasOpposite(out)
    THEN [outs |-> acc, end |-> "stall"]
    ELSE IF ~HasNext(OppositeOf(out))
    THEN [outs |-> Append(acc, out), end |-> "broken"]
    ELSE IF NextOf(OppositeOf(out)) = seed
    THEN [outs |-> Append(acc, out), end |-> "closed"]
    ELSE RefWalkRing(seed, NextOf(OppositeOf(out)), Append(acc, out))

RefRing(v) ==
    IF vertices[v].edge = None
    THEN [outs |-> << >>, end |-> "none"]
    ELSE RefWalkRing(vertices[v].edge[1], vertices[v].edge[1], << >>)

\* The opposites of the outgoing edges of a walk, in walk order.
RefOpposites(outs) == [i \in 1 .. Len(outs) |-> OppositeOf(outs[i])]

\* The half-edges that end at v.
RefIncoming(v) ==
    { e \in EdgeKeys : HasNext(e) /\ edges[NextOf(e)].vertex = v }

IsPrefix(s, t) == Len(s) <= Len(t) /\ \A i \in 1 .. Len(s) : s[i] = t[i]

Ended == nones > 0

\* The invariants of a consistent mesh.
FaceEdgeResolves == \A f \in DOMAIN faces : faces[f].edge \in EdgeKeys
EdgeKeysResolve ==
    \A e \in EdgeKeys :
        /\ edges[e].vertex \in DOMAIN vertices
        /\ HasNext(e)
        /\ edges[e].opposite # None => HasOpposite(e)
        /\ edges[e].face # None => edges[e].face[1] \in DOMAIN faces
OppositesPaired ==
    \A e \in EdgeKeys :
        HasOpposite(e) =>
            LET o == edges[e].opposite[1]
            IN  /\ edges[o].opposite = Some(e)
                /\ HasNext(e) => edges[o].vertex = edges[edges[e].next[1]].vertex
FaceLoops ==
    \A f \in DOMAIN faces :
        /\ faces[f].edge \in EdgeKeys
        /\ LET es == RefInteriorEdges(f)
           IN  /\ Len(es) >= 3
               /\ \A i \in 1 .. Len(es) : edges[es[i]].face = Some(f)
VertexRings ==
    \A v \in DOMAIN vertices :
        LET ring == RefRing(v)
        IN  /\ ring.end \in { "none", "closed", "stall" }
            /\ \A i \in 1 .. Len(ring.outs) : edges[ring.outs[i]].vertex = v
NoDuplicateEdges ==
    \A e1, e2 \in EdgeKeys :
        (/\ HasNext(e1) /\ HasNext(e2)
         /\ edges[e1].vertex = edges[e2].vertex
         /\ edges[edges[e1].next[1]].vertex = edges[edges[e2].next[1]].vertex)
            => e1 = e2
VertexEdgeOrigin ==
    \A v \in DOMAIN vertices :
        vertices[v].edge # None =>
            /\ vertices[v].edge[1] \in EdgeKeys
            /\ edges[vertices[v].edge[1]].vertex = v

Consistent ==
    /\ FaceEdgeResolves /\ EdgeKeysResolve /\ OppositesPaired /\ FaceLoops
    /\ VertexRings /\ NoDuplicateEdges /\ VertexEdgeOrigin

-----------------------------------------------------------------------------
\* Properties of the face-centred circulators.

Distinct(s) == \A i, j \in 1 .. Len(s) : i # j => s[i] # s[j]

\* C1: on a consistent mesh, interior_edges of a face f yields f.edge,
\* then the `next` of each previous yield, arity(f) edges in all, and then
\* yields nothing; f.edge is yielded at the first position only.
C1_InteriorEdgesYieldArity ==
    circ.kind = "interior_edges" =>
        \/ LET es == RefInteriorEdges(circ.seed)
           IN  /\ IsPrefix(yields, es)
               /\ Len(yields) >= 1 => yields[1] = faces[circ.seed].edge
               /\ \A i \in 2 .. Len(yields) :
                      /\ yields[i] = NextOf(yields[i - 1])
                      /\ yields[i] # faces[circ.seed].edge
               /\ Ended => yields = es
               /\ yields = es => face_EdgeCirculator_next(circ).item = None
        \/ ~Consistent

C1_Witness ==
    /\ circ.kind = "interior_edges"
    /\ Consistent
    /\ Ended
    /\ Len(yields) = 4
    /\ Len(yields) = RefArity(circ.seed)

\* C2: neighboring_faces of a face f yields, in the order of the interior
\* edges of f, the face of the opposite of each interior edge that has an
\* opposite with a face; the other interior edges are skipped and the
\* circulation goes on behind them.
C2_NeighboringFacesSkipBoundary ==
    circ.kind = "neighboring_faces" =>
        \/ LET fs == RefNeighboringFaces(circ.seed)
               es == RefInteriorEdges(circ.seed)
           IN  /\ IsPrefix(yields, fs)
               /\ Ended => yields = fs
               /\ yields = fs => face_FaceCirculator_next(circ).item = None
               /\ Len(fs) = Cardinality({ i \in 1 .. Len(es) :
                                            RefOppositeFace(es[i]) # {} })
        \/ ~Consistent

\* A face is yielded from behind an edge that comes after a skipped edge.
C2_Witness ==
    /\ circ.kind = "neighboring_faces"
    /\ Consistent
    /\ Ended
    /\ LET es == RefInteriorEdges(circ.seed)
       IN  /\ \E i, j \in 1 .. Len(es) :
                  /\ i < j
                  /\ RefOppositeFace(es[i]) = {}
                  /\ HasOpposite(es[i])
                  /\ RefOppositeFace(es[j]) # {}
                  /\ yields[Len(yields)] \in RefOppositeFace(es[j])
           /\ \E i \in 1 .. Len(es) : ~HasOpposite(es[i])

\* Every half-edge has an opposite, and the opposite has a face.
Closed ==
    /\ EdgeKeys # {}
    /\ \A e \in EdgeKeys : RefOppositeFace(e) # {}

\* C3: in a closed consistent mesh neighboring_faces of a face f yields
\* exactly arity(f) items, 3 for every face of a triangle mesh.
C3_ClosedMeshNeighborCount ==
    (circ.kind = "neighboring_faces" /\ Closed) =>
        \/ /\ Len(yields) <= RefArity(circ.seed)
           /\ Ended => Len(yields) = RefArity(circ.seed)
           /\ Len(yields) = RefArity(circ.seed)
                  => face_FaceCirculator_next(circ).item = None
           /\ (Ended /\ \A f \in DOMAIN faces : RefArity(f) = 3)
                  => Len(yields) = 3
        \/ ~Consistent

\* A closed mesh of four triangles (the tetrahedron), one face circulated.
C3_Witness ==
    /\ circ.kind = "neighboring_faces"
    /\ Closed
    /\ Consistent
    /\ Ended
    /\ Cardinality(DOMAIN faces) = 4
    /\ \A f \in DOMAIN faces : RefArity(f) = 3
    /\ Len(yields) = 3

\* The mesh has one face, and no interior edge of it has a face behind it.
SingleBoundaryFace ==
    /\ Cardinality(DOMAIN faces) = 1
    /\ \A f \in DOMAIN faces :
           \A i \in 1 .. RefArity(f) : RefOppositeFace(RefInteriorEdges(f)[i]) = {}

\* C4: on a mesh of a single face whose edges are all boundary edges,
\* neighboring_faces of the face yields nothing, while interior_edges of the
\* face yields arity items.
C4_SingleFaceHasNoNeighbors ==
    (circ.kind \in { "neighboring_faces", "interior_edges" }
        /\ SingleBoundaryFace) =>
        /\ circ.kind = "neighboring_faces" =>
               /\ yields = << >>
               /\ face_FaceCirculator_next(circ).item = None
        /\ circ.kind = "interior_edges" =>
               /\ Len(yields) <= RefArity(circ.seed)
               /\ RefArity(circ.seed) >= 3
               /\ Ended => Len(yields) = RefArity(circ.seed)
               /\ Len(yields) < RefArity(circ.seed)
                      => face_EdgeCirculator_next(circ).item # None

C4_Witness ==
    /\ circ.kind = "neighboring_faces"
    /\ SingleBoundaryFace
    /\ Ended
    /\ yields = << >>
    /\ RefArity(circ.seed) = 4

\* C5: on a consistent mesh, vertices of a face f yields arity(f) vertices,
\* the i-th being the origin of the i-th interior edge of f.
C5_FaceVerticesAreEdgeOrigins ==
    circ.kind = "vertices" =>
        \/ LET es == RefInteriorEdges(circ.seed)
               vs == [i \in 1 .. Len(es) |-> edges[es[i]].vertex]
           IN  /\ IsPrefix(yields, vs)
               /\ Ended => yields = vs
               /\ yields = vs => face_VertexCirculator_next(circ).item = None
        \/ ~Consistent

C5_Witness ==
    /\ circ.kind = "vertices"
    /\ Consistent
    /\ Ended
    /\ Len(yields) = RefArity(circ.seed)
    /\ Len(yields) = 4
    /\ Cardinality(DOMAIN faces) >= 2

-----------------------------------------------------------------------------
\* Properties of the vertex-centred circulators.

\* C6: for a vertex v whose walk out_0 = v.edge, out_(i+1) =
\* next(opposite(out_i)) is back at v.edge after k steps, incoming_edges
\* yields exactly k edges, the i-th being opposite(out_i), and then nothing;
\* a vertex whose closed ring has 4 edges yields 4 incoming edges.
C6_ClosedRingYieldsIncoming ==
    circ.kind = "incoming_edges" =>
        LET ring == RefRing(circ.seed)
            ins  == RefOpposites(ring.outs)
        IN  ring.end = "closed" =>
                /\ IsPrefix(yields, ins)
                /\ Ended => yields = ins
                /\ yields = ins => vertex_EdgeCirculator_next(circ).item = None
                /\ (Ended /\ Len(ring.outs) = 4) => Len(yields) = 4

C6_Witness ==
    /\ circ.kind = "incoming_edges"
    /\ RefRing(circ.seed).end = "closed"
    /\ Len(RefRing(circ.seed).outs) = 4
    /\ Cardinality(RefIncoming(circ.seed)) = 4
    /\ Ended
    /\ Len(yields) = 4

\* C7: when the walk around v reaches an outgoing edge without opposite,
\* incoming_edges yields nothing at that step and at every later step; only
\* the opposites of the outgoing edges walked before are yielded, none at
\* all when v.edge itself has no opposite.
C7_BoundaryStallsSilently ==
    circ.kind = "incoming_edges" =>
        LET ring == RefRing(circ.seed)
            ins  == RefOpposites(ring.outs)
            r    == vertex_EdgeCirculator_next(circ)
        IN  ring.end = "stall" =>
                /\ IsPrefix(yields, ins)
                /\ Ended => yields = ins
                /\ yields = ins =>
                       /\ r.item = None
                       /\ r.edge = circ.edge
                       /\ r.breadcrumb = circ.breadcrumb
                /\ ~HasOpposite(vertices[circ.seed].edge[1]) => yields = << >>

\* The walk stalled after at least one yield, and an incoming edge of the
\* vertex was never yielded.
C7_Witness ==
    /\ circ.kind = "incoming_edges"
    /\ RefRing(circ.seed).end = "stall"
    /\ nones = MaxNones
    /\ Len(yields) >= 1
    /\ \E e \in RefIncoming(circ.seed) : \A i \in 1 .. Len(yields) : yields[i] # e

\* The number of items a circulation from the seed can yield at most: the
\* arity of the face, or the number of outgoing edges with an opposite on the
\* walk around the vertex.
RefYieldBound ==
    IF circ.kind \in { "incoming_edges", "vertex_neighboring_faces" }
    THEN Len(RefRing(circ.seed).outs)
    ELSE RefArity(circ.seed)

\* C8: on a consistent mesh, closed or with boundary, every circulation
\* ends: every call of next returns, and the calls that yield an item are
\* at most as many as the face has edges or the vertex has walked edges.
C8_CirculationsEnd ==
    circ.kind # "idle" =>
        \/ /\ ~circ.hung
           /\ Len(yields) <= RefYieldBound
           /\ Len(yields) < MaxYields
        \/ ~Consistent

C8_Witness ==
    /\ circ.kind = "vertex_neighboring_faces"
    /\ Consistent
    /\ RefRing(circ.seed).end = "stall"
    /\ \E e \in EdgeKeys : edges[e].face = None
    /\ nones = MaxNones
    /\ Len(yields) >= 1

\* C9: on a consistent mesh, the edge keys yielded by one circulation of
\* interior_orphan_edges are pairwise distinct.
C9_OrphanEdgesDistinct ==
    circ.kind = "interior_orphan_edges" => (Distinct(yields) \/ ~Consistent)

C9_Witness ==
    /\ circ.kind = "interior_orphan_edges"
    /\ Consistent
    /\ Ended
    /\ Len(yields) = 4

\* C10: on a consistent mesh, the face keys yielded by one circulation of
\* neighboring_orphan_faces are pairwise distinct.
C10_OrphanFacesDistinct ==
    circ.kind = "neighboring_orphan_faces" => (Distinct(yields) \/ ~Consistent)

-----------------------------------------------------------------------------
\* The indexers, read from the record of their calls: input[i] is the
\* vertex of call i, hashOut[i] and lruOut[i] what the two indexers
\* returned for it.

Calls == 1 .. Len(input)

KeysSeen == { key_fn(input[i]) : i \in Calls }

\* An earlier call had a key equal to that of call i.
SeenBefore(i) == \E j \in 1 .. i - 1 : key_fn(input[j]) = key_fn(input[i])

\* The vertex buffer after the first i calls: the vertices given back, in
\* call order.
RECURSIVE Buffer(_, _)
Buffer(out, i) ==
    IF i = 0
    THEN << >>
    ELSE LET b == Buffer(out, i - 1)
         IN  IF out[i].vertex # None THEN Append(b, out[i].vertex[1]) ELSE b

\* C11: a call of HashIndexer::index gives the vertex back (Some, and it
\* is the vertex passed in) exactly when no earlier call on the indexer
\* had an equal key; a call with a key seen before gives back None.
C11_HashEmitsOnFirstOccurrence ==
    \A i \in Calls :
        /\ (hashOut[i].vertex # None) <=> ~SeenBefore(i)
        /\ hashOut[i].vertex # None => hashOut[i].vertex = Some(input[i])

\* A repeated key got None and a later call with a new key got its vertex.
C11_Witness ==
    \E i, j \in Calls :
        i < j /\ hashOut[i].vertex = None /\ hashOut[j].vertex # None

\* C12: HashIndexer maps keys to indices one to one: two calls return the
\* same index exactly when their keys are equal, and the indices returned
\* so far are 0 .. d-1 for d distinct keys seen.
C12_HashIndicesOneToOne ==
    /\ \A i, j \in Calls :
          (hashOut[i].index = hashOut[j].index)
              <=> (key_fn(input[i]) = key_fn(input[j]))
    /\ { hashOut[i].index : i \in Calls } = 0 .. Cardinality(KeysSeen) - 1

\* Several distinct keys were seen, some of them more than once.
C12_Witness ==
    /\ Cardinality(KeysSeen) >= 3
    /\ Len(input) >= Cardinality(KeysSeen) + 2

\* Every index an indexer returned points into the vertex buffer at a
\* vertex with the key of the call, and a call that gives its vertex back
\* returns the number of vertices given back before it.
IndexesBuffer(out) ==
    \A i \in Calls :
        LET before == Buffer(out, i - 1)
            after == Buffer(out, i)
        IN  /\ out[i].vertex # None => out[i].index = Len(before)
            /\ out[i].index >= 0
            /\ out[i].index < Len(after)
            /\ key_fn(after[out[i].index + 1]) = key_fn(input[i])

\* C13: for HashIndexer and for LruIndexer at any capacity, a call that
\* emits a vertex returns the number of vertices emitted before it, so
\* every index returned, hit or miss, is below the length of the buffer of
\* emitted vertices and the buffer entry there has the key of the call.
C13_IndicesPointIntoBuffer ==
    IndexesBuffer(hashOut) /\ IndexesBuffer(lruOut)

\* The LruIndexer had too little room: it hit on a key it had emitted a
\* second time, returning another index than the HashIndexer.
C13_Witness ==
    \E i \in Calls :
        lruOut[i].vertex = None /\ lruOut[i].index # hashOut[i].index

\* C14: the capacity an LruIndexer works with is max(1, requested), and
\* after construction and after every index call the cache holds at most
\* that many (key, index) entries.
C14_LruCapacityFloorAndBound ==
    /\ lruIndexer.capacity = (IF requested >= 1 THEN requested ELSE 1)
    /\ Len(lruIndexer.lru) <= lruIndexer.capacity

\* An LruIndexer asked for no capacity has been called more than once and
\* holds one entry.
C14_Witness ==
    /\ requested = 0
    /\ Len(input) >= 2
    /\ Len(lruIndexer.lru) = 1

\* The entries and the keys an LruIndexer holds.
CachedEntries(self) == { self.lru[i] : i \in 1 .. Len(self.lru) }
CachedKeys(self) == { self.lru[i][1] : i \in 1 .. Len(self.lru) }

\* The latest call so far, hit or miss, with key k.
LastUse(k) ==
    CHOOSE i \in Calls :
        /\ key_fn(input[i]) = k
        /\ \A j \in Calls : key_fn(input[j]) = k => j <= i

\* The cached key whose latest call is older than that of every other
\* cached key.
LeastRecentlyUsed ==
    CHOOSE k \in CachedKeys(lruIndexer) :
        \A o \in CachedKeys(lruIndexer) \ {k} : LastUse(k) < LastUse(o)

\* C15: a call with a key that is not cached, on a full cache, discards
\* exactly one entry, that of the least recently used key (hits and
\* insertions both count as uses); a call with a cached key discards
\* nothing and makes its entry the most recent one.
C15_LruDiscardsLeastRecentlyUsed ==
    [][ Len(input') = Len(input) + 1 =>
            LET key == key_fn(input'[Len(input')])
                cached == CachedKeys(lruIndexer)
                full == Len(lruIndexer.lru) >= lruIndexer.capacity
                gone == CachedEntries(lruIndexer) \ CachedEntries(lruIndexer')
            IN  /\ (key \notin cached /\ full) =>
                      /\ Cardinality(gone) = 1
                      /\ \A e \in gone : e[1] = LeastRecentlyUsed
                      /\ CachedKeys(lruIndexer') =
                            (cached \ {LeastRecentlyUsed}) \cup {key}
                /\ key \in cached =>
                      /\ gone = {}
                      /\ CachedEntries(lruIndexer') = CachedEntries(lruIndexer)
                      /\ lruIndexer'.lru[Len(lruIndexer'.lru)][1] = key
      ]_vars

\* On a cache of two or more entries a key was hit and a later call
\* missed on the full cache.
C15_Witness ==
    /\ lruIndexer.capacity >= 2
    /\ \E i, j \in Calls :
          /\ i < j
          /\ lruOut[i].vertex = None
          /\ lruOut[j].vertex # None
          /\ lruOut[j].index >= lruIndexer.capacity

\* C16: a call with a key that was seen before and is no longer cached
\* returns an index no earlier call returned and gives the vertex back.
C16_DiscardedKeyGetsNewIndex ==
    [][ Len(input') = Len(input) + 1 =>
            LET v == input'[Len(input')]
                out == lruOut'[Len(lruOut')]
            IN  (key_fn(v) \in KeysSeen
                     /\ key_fn(v) \notin CachedKeys(lruIndexer)) =>
                  /\ out.index \notin { lruOut[i].index : i \in Calls }
                  /\ out.vertex = Some(v)
      ]_vars

\* A key was emitted, discarded, and emitted again by a later call.
C16_Witness ==
    \E i, j \in Calls :
        /\ i < j
        /\ key_fn(input[i]) = key_fn(input[j])
        /\ lruOut[i].vertex # None
        /\ lruOut[j].vertex # None

\* Between any two consecutive calls with the same key, fewer than c
\* distinct other keys were passed.
Local(c) ==
    \A i, j \in Calls :
        ( /\ i < j
          /\ key_fn(input[i]) = key_fn(input[j])
          /\ \A m \in i + 1 .. j - 1 : key_fn(input[m]) # key_fn(input[i]) )
        => Cardinality({ key_fn(input[m]) : m \in i + 1 .. j - 1 }) < c

\* C17: when fewer than capacity distinct other keys come between any two
\* consecutive occurrences of a key, LruIndexer returns for every call the
\* index HashIndexer returns and gives the vertex back exactly when
\* HashIndexer does, so it emits no key twice.
C17_LruAgreesWithHashUnderLocality ==
    Local(lruIndexer.capacity) =>
        /\ \A i \in Calls :
              /\ lruOut[i].index = hashOut[i].index
              /\ (lruOut[i].vertex = None) <=> (hashOut[i].vertex = None)
        /\ \A i, j \in Calls :
              ( /\ i < j
                /\ lruOut[i].vertex # None
                /\ lruOut[j].vertex # None )
              => key_fn(input[i]) # key_fn(input[j])

\* The cache is smaller than the number of keys seen, the keys came close
\* enough together, and some call was a hit.
C17_Witness ==
    /\ Local(lruIndexer.capacity)
    /\ Cardinality(KeysSeen) > lruIndexer.capacity
    /\ lruIndexer.capacity >= 2
    /\ \E i \in Calls : lruOut[i].vertex = None

\* The keys were passed in a repeating cycle of p distinct keys.
Cyclic(p) ==
    /\ \A i, j \in Calls : (i < j /\ j <= p) =>
                               key_fn(input[i]) # key_fn(input[j])
    /\ \A i \in Calls : i > p => key_fn(input[i]) = key_fn(input[i - p])

\* C18: with the keys passed in a repeating cycle of p distinct keys to
\* an LruIndexer of capacity below p, every call is a miss: call i returns
\* index i-1 and gives its vertex back, so N calls return 0 .. N-1 and
\* emit N vertices.
C18_CycleLongerThanCacheAlwaysMisses ==
    \A p \in Keys :
        (Cyclic(p) /\ lruIndexer.capacity < p) =>
            /\ \A i \in Calls :
                  /\ lruOut[i].index = i - 1
                  /\ lruOut[i].vertex = Some(input[i])
            /\ { lruOut[i].index : i \in Calls } = 0 .. Len(input) - 1
            /\ Len(Buffer(lruOut, Len(input))) = Len(input)

\* A cycle went round at least twice through a cache of two or more
\* entries that is too small for it.
C18_Witness ==
    \E p \in Keys :
        /\ Cyclic(p)
        /\ lruIndexer.capacity < p
        /\ lruIndexer.capacity >= 2
        /\ Len(input) >= 2 * p

\* C19: index_vertices_with gives one index polygon per polygon of the
\* stream, in stream order and of the same arity, and a vertex buffer in
\* which every index finds a vertex whose key is that of the stream's
\* vertex at the same polygon and position.
C19_IndexedStreamRebuildsKeys ==
    indexed # None =>
        LET r == indexed[1]
        IN  /\ Len(r.indeces) = Len(r.stream)
            /\ \A p \in 1 .. Len(r.stream) :
                  /\ Len(r.indeces[p]) = Len(r.stream[p])
                  /\ \A q \in 1 .. Len(r.stream[p]) :
                        LET index == r.indeces[p][q]
                        IN  /\ index >= 0
                            /\ index < Len(r.vertices)
                            /\ key_fn(r.vertices[index + 1]) =
                                  key_fn(r.stream[p][q])

\* A triangle and a quad sharing keys went through an LruIndexer too
\* small to remember them: the vertex buffer holds a key twice, and an
\* index was returned by a hit.
C19_Witness ==
    /\ indexed # None
    /\ "lru" \in DOMAIN indexed[1].indexer
    /\ Len(indexed[1].stream) = 2
    /\ Len(indexed[1].stream[1]) # Len(indexed[1].stream[2])
    /\ \E i, j \in 1 .. Len(indexed[1].vertices) :
          i < j /\ key_fn(indexed[1].vertices[i]) = key_fn(indexed[1].vertices[j])
    /\ Len(indexed[1].vertices) <
          Len(indexed[1].stream[1]) + Len(indexed[1].stream[2])

-----------------------------------------------------------------------------
\* Mutations through views.

ViewMutations == { "join", "triangulate", "extrude", "get_or_insert_face" }

\* C20: when the snapshot of join, triangulate, extrude or
\* get_or_insert_face returns an error, the operation returns that error,
\* the storage is not replaced, and the vertices, edges and faces of the
\* mesh are what they were before the call.
C20_SnapshotErrorIsNoOp ==
    [][ (call'.op \in ViewMutations /\ call'.snapshot \in ErrorKinds) =>
            /\ call'.result[1] = "Err"
            /\ call'.result[2] = call'.snapshot
            /\ ~call'.replaced
            /\ vertices' = vertices
            /\ edges' = edges
            /\ faces' = faces
      ]_vars

\* A join of two faces that do not lie against each other was turned down
\* on a mesh of two or more faces.
C20_Witness ==
    /\ call.op = "join"
    /\ call.snapshot = "TopologyConflict"
    /\ call.result = Err("TopologyConflict")
    /\ Cardinality(DOMAIN faces) >= 2

-----------------------------------------------------------------------------
\* Properties of the mutations made through views.

\* The number of edges around face f of the mesh.
Arity(f) == Len(FaceLoop(Storage, f))

\* The vertices around face f of the mesh.
FaceVertices(f) == Range(Origins(Storage, FaceLoop(Storage, f)))

C23_JoinOfFacesApartFails ==
    [][ \A source, destination \in DOMAIN faces :
            (/\ call'.op = "join"
             /\ FaceVertices(source) \cap FaceVertices(destination) = {}
             /\ join(source, destination))
                => /\ call'.result \in
                        { Err("ArityConflict"), Err("TopologyConflict") }
                   /\ Cardinality(DOMAIN vertices') =
                        Cardinality(DOMAIN vertices)
                   /\ Cardinality(DOMAIN edges') = Cardinality(DOMAIN edges)
                   /\ Cardinality(DOMAIN faces') = Cardinality(DOMAIN faces)
                   /\ vertices' = vertices
                   /\ edges' = edges
                   /\ faces' = faces
      ]_vars

C23_Witness ==
    /\ call.op = "join"
    /\ call.result = Err("TopologyConflict")
    /\ ~call.replaced
    /\ \E source, destination \in DOMAIN faces :
          /\ Arity(source) = Arity(destination)
          /\ FaceVertices(source) \cap FaceVertices(destination) = {}

\* C24: triangulating a face of arity 3 returns Ok(None) and changes
\* nothing: the vertices with their outgoing edges and positions, the
\* half-edges with their links, and the faces are as they were.
C24_TriangulatingTriangleIsNoOp ==
    [][ \A abc \in DOMAIN faces, centroid \in GeometryResults :
            (/\ call'.op = "triangulate"
             /\ Arity(abc) = 3
             /\ triangulate(abc, centroid))
                => /\ call'.result = Ok(None)
                   /\ vertices' = vertices
                   /\ edges' = edges
                   /\ faces' = faces
      ]_vars

C24_Witness ==
    /\ call.op = "triangulate"
    /\ call.result = Ok(None)
    /\ call.replaced
    /\ \E f \in DOMAIN faces : Arity(f) = 3

\* The storage after a step, and its counts before and after.
StorageAfter == Storage'
Counts == <<Cardinality(DOMAIN vertices), Cardinality(DOMAIN edges),
            Cardinality(DOMAIN faces)>>
CountsAfter == Counts'

\* The mesh is the one built from polygons, and nothing was called on it.
Built(polygons) ==
    /\ call = NoCall
    /\ indexed # None
    /\ indexed[1].stream = StreamOf(polygons)

\* C25: triangulating a face f of arity n >= 4, the centroid given, returns
\* the key of one new vertex, at the centroid; f is gone, the other faces
\* stay, and n faces are new, each a triangle of one half-edge of f and
\* two of the 2n new half-edges, which meet at the new vertex; so one
\* vertex, 2n half-edges and n - 1 faces more.  MeshGraph::triangulate on
\* the indexed cube, 8 vertices, 24 half-edges and 6 faces, gives 14
\* vertices, 72 half-edges and 24 faces.
C25_TriangulateFansOverCentroid ==
    [][ /\ \A abc \in DOMAIN faces :
              (/\ call'.op = "triangulate"
               /\ Arity(abc) >= 4
               /\ triangulate(abc, "Ok"))
                  => LET loop == FaceLoop(Storage, abc)
                         n == Len(loop)
                         made == DOMAIN faces' \ DOMAIN faces
                         spokes == DOMAIN edges' \ DOMAIN edges
                     IN  /\ call'.result[1] = "Ok"
                         /\ call'.result[2] # None
                         /\ DOMAIN vertices' =
                              DOMAIN vertices \cup {call'.result[2][1]}
                         /\ call'.result[2][1] \notin DOMAIN vertices
                         /\ vertices'[call'.result[2][1]].position =
                              FaceCentroid_centroid(Storage,
                                                    Origins(Storage, loop))
                         /\ DOMAIN faces \ DOMAIN faces' = {abc}
                         /\ DOMAIN edges \subseteq DOMAIN edges'
                         /\ Cardinality(spokes) = 2 * n
                         /\ Cardinality(made) = n
                         /\ \A e \in Range(loop) :
                              /\ edges'[e].face # None
                              /\ edges'[e].face[1] \in made
                         /\ \A f \in made :
                              LET tri == Range(FaceLoop(StorageAfter, f))
                              IN  /\ Cardinality(tri) = 3
                                  /\ Cardinality(tri \cap Range(loop)) = 1
                                  /\ Cardinality(tri \cap spokes) = 2
                                  /\ \E e \in tri :
                                       edges'[e].vertex = call'.result[2][1]
                         /\ CountsAfter =
                              <<Counts[1] + 1, Counts[2] + 2 * n,
                                Counts[3] + n - 1>>
        /\ (Built(Cube_polygons) /\ MeshGraph_triangulate("Ok"))
              => /\ Counts = <<8, 24, 6>>
                 /\ CountsAfter = <<14, 72, 24>>
      ]_vars

C25_Witness ==
    /\ call.op = "MeshGraph::triangulate"
    /\ call.result = Ok(None)
    /\ indexed[1].stream = StreamOf(Cube_polygons)
    /\ Counts = <<14, 72, 24>>

\* The faces that neighboring_faces of face f yields, collected by calling
\* FaceCirculator::next until it yields nothing.
RECURSIVE neighboring_faces_collect(_, _, _)
neighboring_faces_collect(c, acc, fuel) ==
    IF fuel = 0
    THEN acc
    ELSE LET r == face_FaceCirculator_next(c)
         IN  IF r.item = None
             THEN acc
             ELSE neighboring_faces_collect(
                    [edge |-> r.edge, breadcrumb |-> r.breadcrumb],
                    Append(acc, r.item[1]), fuel - 1)

\* What neighboring_faces yields for the face the last call returned.
ReturnedFaceNeighbors ==
    IF /\ call # NoCall
       /\ call.result[1] = "Ok"
       /\ call.result[2] # None
       /\ call.result[2][1] \in DOMAIN faces
    THEN neighboring_faces_collect(
            [edge |-> Some(faces[call.result[2][1]].edge),
             breadcrumb |-> Some(faces[call.result[2][1]].edge)],
            << >>, Cardinality(DOMAIN edges) + 1)
    ELSE << >>

\* C26: extruding a face f of arity n in a closed consistent mesh, the
\* normal given, succeeds, removes f and keeps the other faces, adds n vertices, 4n
\* half-edges and n + 1 faces, n of them quadrilaterals; the face returned
\* is the remaining one, the cap: it has arity n and its vertices are the
\* new ones; the mesh stays closed, and neighboring_faces of the cap
\* yields as many faces as the cap has edges, none of them twice and none
\* of them the cap.  On the sphere of 6 triangles, with 5 vertices, 18
\* half-edges and 6 faces, the result has 8, 30 and 9, and the cap has 3
\* neighbours.
C26_ExtrudeCountsAndCap ==
    /\ [][ (/\ call'.op = "extrude"
             /\ call'.snapshot \notin GeometryResults \ {"Ok"}
             /\ Closed
             /\ Consistent) =>
              \E abc \in DOMAIN faces :
                     LET n == Arity(abc)
                         made == DOMAIN faces' \ DOMAIN faces
                         fresh == DOMAIN vertices' \ DOMAIN vertices
                     IN  /\ call'.result[1] = "Ok"
                         /\ call'.result[2] # None
                         /\ DOMAIN faces \ DOMAIN faces' = {abc}
                         /\ \E distance \in Distances :
                              extrude(abc, "Ok", distance)
                         /\ DOMAIN vertices \subseteq DOMAIN vertices'
                         /\ DOMAIN edges \subseteq DOMAIN edges'
                         /\ CountsAfter = <<Counts[1] + n, Counts[2] + 4 * n,
                                            Counts[3] + n>>
                         /\ Cardinality(made) = n + 1
                         /\ call'.result[2][1] \in made
                         /\ \A f \in made :
                              Len(FaceLoop(StorageAfter, f)) =
                                  IF f = call'.result[2][1] THEN n ELSE 4
                         /\ Range(Origins(StorageAfter,
                                          FaceLoop(StorageAfter,
                                                   call'.result[2][1])))
                              = fresh
                         /\ Closed'
                         /\ Built(UvSphere_polygons)
                              => /\ Counts = <<5, 18, 6>>
                                 /\ CountsAfter = <<8, 30, 9>>
                                 /\ n = 3
          ]_vars
    /\ [](( /\ call.op = "extrude"
            /\ call.result[1] = "Ok"
            /\ Closed)
              => /\ call.result[2] # None
                 /\ call.result[2][1] \in DOMAIN faces
                 /\ Len(ReturnedFaceNeighbors) = Arity(call.result[2][1])
                 /\ Distinct(ReturnedFaceNeighbors)
                 /\ call.result[2][1] \notin Range(ReturnedFaceNeighbors))

\* The sphere with one of its triangles extruded.
C26_Witness ==
    /\ call.op = "extrude"
    /\ call.result[1] = "Ok"
    /\ Closed
    /\ Consistent
    /\ indexed[1].stream = StreamOf(UvSphere_polygons)
    /\ Counts = <<8, 30, 9>>
    /\ Len(ReturnedFaceNeighbors) = 3
    /\ Arity(call.result[2][1]) = 3

\* The vertex at the far end of half-edge e after a step.
DestinationAfter(e) == edges'[edges'[e].next[1]].vertex

\* C27: a successful extrude of a face by the distance 0 leaves every
\* vertex there was at its position, and puts each new vertex at the
\* position of the vertex of the face that it is joined to by a half-edge,
\* one for each new vertex; as many vertices are new as the face has
\* edges, the face is gone and faces and half-edges are new.
C27_ExtrudeByZeroKeepsPositions ==
    [][ (call'.op = "extrude" /\ call'.result[1] = "Ok") =>
          \E abc \in DOMAIN faces :
              /\ DOMAIN faces \ DOMAIN faces' = {abc}
              /\ \E distance \in Distances : extrude(abc, "Ok", distance)
              /\ extrude(abc, "Ok", 0) =>
                   LET old == FaceVertices(abc)
                       fresh == DOMAIN vertices' \ DOMAIN vertices
                   IN  /\ \A v \in DOMAIN vertices :
                            /\ v \in DOMAIN vertices'
                            /\ vertices'[v].position = vertices[v].position
                       /\ \A w \in fresh :
                            /\ Cardinality(
                                 { DestinationAfter(e) :
                                     e \in { k \in DOMAIN edges' :
                                               edges'[k].vertex = w } }
                                 \cap old) = 1
                            /\ \A e \in DOMAIN edges' :
                                 (/\ edges'[e].vertex = w
                                  /\ DestinationAfter(e) \in old)
                                     => vertices'[w].position =
                                        vertices[DestinationAfter(e)].position
                       /\ Cardinality(fresh) = Arity(abc)
                       /\ { vertices'[w].position : w \in fresh } =
                            { vertices[v].position : v \in old }
                       /\ DOMAIN faces' \ DOMAIN faces # {}
                       /\ DOMAIN edges' \ DOMAIN edges # {}
      ]_vars

\* A face was extruded and a new vertex lies where a vertex of the face
\* lies, to which a half-edge leads from it.
C27_Witness ==
    /\ call.op = "extrude"
    /\ call.result[1] = "Ok"
    /\ \E w, v \in DOMAIN vertices :
          /\ w # v
          /\ vertices[w].position = vertices[v].position
          /\ \E e \in DOMAIN edges :
                /\ edges[e].vertex = w
                /\ edges[edges[e].next[1]].vertex = v

-----------------------------------------------------------------------------
\* Invariants of the mesh under the operations.  Every state is reached by
\* a sequence of insert face, join, triangulate and extrude; the ones that
\* fail leave the mesh as it was.

\* The half-edges that interior_edges of face f yields, collected by
\* calling EdgeCirculator::next until it yields nothing.
RECURSIVE interior_edges_collect(_, _, _)
interior_edges_collect(c, acc, fuel) ==
    IF fuel = 0
    THEN acc
    ELSE LET r == face_EdgeCirculator_next(c)
         IN  IF r.item = None
             THEN acc
             ELSE interior_edges_collect(
                    [edge |-> r.edge, breadcrumb |-> r.breadcrumb],
                    Append(acc, r.item[1]), fuel - 1)

InteriorEdges(f) ==
    interior_edges_collect(
        [edge |-> Some(faces[f].edge), breadcrumb |-> Some(faces[f].edge)],
        << >>, Cardinality(DOMAIN edges) + 1)

\* C28: in every mesh made by inserting faces and then joining,
\* triangulating and extruding faces, for every face f the circulation of
\* its edges starts at f.edge, follows `next`, and is back at f.edge
\* after as many steps as it yields edges, three or more, not before; and
\* every edge on the way has the face f.
C28_FaceLoopsClose ==
    \A f \in DOMAIN faces :
        LET es == InteriorEdges(f)
            n == Len(es)
        IN  /\ n >= 3
            /\ n <= Cardinality(DOMAIN edges)
            /\ es[1] = faces[f].edge
            /\ \A i \in 1 .. n :
                  /\ es[i] \in DOMAIN edges
                  /\ edges[es[i]].face = Some(f)
                  /\ edges[es[i]].next = Some(es[Successor(i, n)])
                  /\ i > 1 => es[i] # faces[f].edge

\* The sphere after two of its triangles were joined and the quadrilateral
\* was extruded: triangles and quadrilaterals, the cap among them.
C28_Witness ==
    /\ call.op = "extrude"
    /\ call.result[1] = "Ok"
    /\ indexed[1].stream = StreamOf(UvSphere_polygons)
    /\ Len(InteriorEdges(call.result[2][1])) = 4
    /\ \E f \in DOMAIN faces : Len(InteriorEdges(f)) = 3
    /\ Cardinality(DOMAIN faces) = 9

\* C29: in every mesh made by inserting and removing faces and by a join,
\* a triangulation or an extrusion, every half-edge e that has an
\* opposite o is the opposite of o, and o starts at the vertex where e
\* ends, the origin of e.next, for every e whose next is in the mesh, as
\* it is for every e that has a face.
C29_OppositesMirror ==
    \A e \in DOMAIN edges :
        /\ edges[e].opposite # None =>
              LET o == edges[e].opposite[1]
              IN  /\ o \in DOMAIN edges
                  /\ o # e
                  /\ edges[o].opposite = Some(e)
                  /\ HasNext(e) =>
                        edges[o].vertex = edges[edges[e].next[1]].vertex
        /\ edges[e].face # None => HasNext(e)

\* A face was extruded next to another face: half-edges made by the
\* extrusion have opposites made by it, and one has an opposite that was
\* there before.
C29_Witness ==
    /\ call.op = "extrude"
    /\ call.result[1] = "Ok"
    /\ \E e \in DOMAIN edges :
          /\ edges[e].opposite # None
          /\ edges[e].face = call.result[2]
    /\ \E e \in DOMAIN edges :
          /\ edges[e].opposite # None
          /\ edges[e].face # None
          /\ edges[edges[e].opposite[1]].face # None
          /\ edges[e].face[1] < call.result[2][1] - Arity(call.result[2][1])
          /\ edges[edges[e].opposite[1]].face[1] < call.result[2][1]
          /\ edges[edges[e].opposite[1]].face[1] >=
                call.result[2][1] - Arity(call.result[2][1])

\* C30: in every mesh made by inserting and removing faces and by a join,
\* a triangulation or an extrusion, the outgoing half-edge of every
\* vertex that has one is in the mesh and starts at that vertex.
C30_OutgoingEdgeStartsAtVertex ==
    \A v \in DOMAIN vertices :
        vertices[v].edge # None =>
            LET e == vertices[v].edge[1]
            IN  /\ e \in DOMAIN edges
                /\ edges[e].vertex = v

\* A face of four or more edges was triangulated: the vertex made at its
\* centroid and the vertices of the face all have outgoing half-edges.
C30_Witness ==
    /\ call.op = "triangulate"
    /\ call.result[1] = "Ok"
    /\ call.result[2] # None
    /\ call.result[2][1] \in DOMAIN vertices
    /\ vertices[call.result[2][1]].edge # None
    /\ Cardinality({ v \in DOMAIN vertices : vertices[v].edge # None }) >= 5

\* FaceView::reachable_edge: a view of the face's half-edge when its key
\* resolves; FaceView::edge unwraps it.
reachable_edge(f) == IntoView(edges, faces[f].edge)

\* C31: in every mesh made by insert face, join, triangulate and
\* extrude, the faces and half-edges these take out included, every key
\* held in a record resolves: the half-edge of a face, the origin and the
\* next of a half-edge, its opposite and its face when it has them, and
\* the outgoing half-edge of a vertex when it has one.
C31_KeysResolve ==
    /\ \A f \in DOMAIN faces : reachable_edge(f) # None
    /\ \A e \in DOMAIN edges :
          /\ Get(vertices, edges[e].vertex) # None
          /\ edges[e].next # None
          /\ Get(edges, edges[e].next[1]) # None
          /\ edges[e].opposite # None =>
                Get(edges, edges[e].opposite[1]) # None
          /\ edges[e].face # None => Get(faces, edges[e].face[1]) # None
    /\ \A v \in DOMAIN vertices :
          vertices[v].edge # None => Get(edges, vertices[v].edge[1]) # None

\* Two faces were joined: their keys and the keys of the half-edges
\* between them are gone, and half-edges with opposites remain.
C31_Witness ==
    /\ call.op = "join"
    /\ call.result[1] = "Ok"
    /\ \E f \in 1 .. nextFaceKey - 1 : f \notin DOMAIN faces
    /\ \E e \in 1 .. nextEdgeKey - 1 : e \notin DOMAIN edges
    /\ \E e \in DOMAIN edges : edges[e].opposite # None
    /\ \E e \in DOMAIN edges : edges[e].opposite = None

\* The half-edges from u to v after a step.
EdgesBetweenAfter(u, v) == EdgesBetweenIn(StorageAfter, u, v)

\* C32: in every mesh made by inserting and removing faces and by a join,
\* a triangulation or an extrusion there is at most one half-edge from u
\* to v for any vertices u and v; and each half-edge of a face made by a
\* step is the half-edge there was between its two vertices, if there
\* was one.
C32_OneEdgePerOrderedPair ==
    /\ [](\A u, v \in DOMAIN vertices :
            Cardinality(EdgesBetween(u, v)) <= 1)
    /\ [][ \A f \in DOMAIN faces' \ DOMAIN faces :
            \A e \in DOMAIN edges' :
                edges'[e].face = Some(f) =>
                    /\ e \in EdgesBetweenAfter(edges'[e].vertex,
                                                DestinationAfter(e))
                    /\ EdgesBetween(edges'[e].vertex, DestinationAfter(e))
                          \subseteq {e}
         ]_vars

\* A face was inserted over a half-edge that a removed face left behind:
\* between two of its half-edges by key lies one without a face.
C32_Witness ==
    /\ call = NoCall
    /\ removals > 0
    /\ \E e1, k, e2 \in DOMAIN edges :
          /\ e1 < k
          /\ k < e2
          /\ edges[k].face = None
          /\ edges[e1].face # None
          /\ edges[e1].face = edges[e2].face
          /\ \A j \in DOMAIN edges :
                edges[j].face = edges[e1].face => j = e1 \/ j > k

\* A half-edge with a face lies between two consecutive vertices of vs.
Occupied(vs) ==
    \E i \in 1 .. Len(vs) :
        \E k \in EdgesBetween(vs[i], vs[Successor(i, Len(vs))]) :
            edges[k].face # None

\* C33: inserting a face over three or more distinct vertices of the
\* mesh, two consecutive ones of which have a half-edge with a face
\* between them, fails in the snapshot with TopologyConflict: the storage
\* is not taken out of the mesh and vertices, half-edges, faces and the
\* keys to come stay as they were.
C33_InsertOverFaceIsRefused ==
    [][ \A vs \in Polygons :
          (/\ call'.op = "insert_face"
           /\ Occupied(vs)
           /\ insert_face(vs))
              => /\ call'.result = Err("TopologyConflict")
                 /\ call'.snapshot = "TopologyConflict"
                 /\ ~call'.replaced
                 /\ vertices' = vertices
                 /\ edges' = edges
                 /\ faces' = faces
                 /\ nextEdgeKey' = nextEdgeKey
                 /\ nextFaceKey' = nextFaceKey
                 /\ removals' = removals
      ]_vars

\* An insertion was refused on a mesh with a face in it.
C33_Witness ==
    /\ call.op = "insert_face"
    /\ call.result = Err("TopologyConflict")
    /\ ~call.replaced
    /\ DOMAIN faces # {}
    /\ \E vs \in Polygons : Occupied(vs)

\* The vertices of the region seeded at half-edge key, in the order of its
\* circulation.
RegionVertices(key) ==
    region_vertices_collect([edge |-> Some(key), breadcrumb |-> Some(key)],
                            << >>, Cardinality(DOMAIN edges) + 1)
PayloadCalledAfter == PayloadCalled'

\* C34: for the region seeded at a half-edge e, into_face gives the face
\* of e and nothing when e has none.  get_or_insert_face gives the face of
\* e when there is one, changes nothing and does not call the payload
\* function.  When e has no face and `next` leads from e round to e, it
\* calls the payload function, inserts one face, over the vertices of the
\* region in the order of circulation and starting at e, makes no
\* half-edge and no vertex, and gives that face, which is the face of e
\* from then on.
C34_RegionFaceOrInsert ==
    [][ \A key \in DOMAIN edges :
          (/\ call'.op = "get_or_insert_face"
           /\ get_or_insert_face(key))
              => /\ RegionView_from_keyed_storage(key) # None
                 /\ into_face(RegionView_from_keyed_storage(key)[1]) =
                        Ok(edges[key].face)
                 /\ edges[key].face # None
                      => /\ call'.result = Ok(edges[key].face)
                         /\ ~PayloadCalledAfter
                         /\ vertices' = vertices
                         /\ edges' = edges
                         /\ faces' = faces
                 /\ (edges[key].face = None /\ ~RegionVertices(key).diverged)
                      => /\ PayloadCalledAfter
                         /\ call'.result[1] = "Ok"
                         /\ call'.result[2] # None
                         /\ DOMAIN faces' =
                              DOMAIN faces \cup {call'.result[2][1]}
                         /\ call'.result[2][1] \notin DOMAIN faces
                         /\ faces'[call'.result[2][1]].edge = key
                         /\ Origins(StorageAfter,
                                    FaceLoop(StorageAfter,
                                             call'.result[2][1])) =
                              RegionVertices(key).vertices
                         /\ DOMAIN edges' = DOMAIN edges
                         /\ DOMAIN vertices' = DOMAIN vertices
                         /\ edges'[key].face = call'.result[2]
      ]_vars

\* A face was inserted over a region that a removed face left behind; and
\* the face of a region that has one was given back.
C34_Witness ==
    /\ call.op = "get_or_insert_face"
    /\ PayloadCalled
    /\ call.result[1] = "Ok"
    /\ call.result[2] # None
    /\ call.result[2][1] \in DOMAIN faces
    /\ removals > 0
    /\ edges[faces[call.result[2][1]].edge].face = call.result[2]

-----------------------------------------------------------------------------
\* Further properties of the circulators.

\* The half-edges that incoming_edges of vertex v yields, collected by
\* calling EdgeCirculator::next of vertex.rs until it yields nothing; the
\* collection is given up after fuel yields.
RECURSIVE incoming_edges_collect(_, _, _)
incoming_edges_collect(c, acc, fuel) ==
    IF fuel = 0
    THEN [diverged |-> TRUE, edges |-> acc]
    ELSE LET r == vertex_EdgeCirculator_next(c)
         IN  IF r.item = None
             THEN [diverged |-> FALSE, edges |-> acc]
             ELSE incoming_edges_collect(
                    [edge |-> r.edge, breadcrumb |-> r.breadcrumb],
                    Append(acc, r.item[1]), fuel - 1)

IncomingEdges(v) ==
    incoming_edges_collect(
        [edge |-> vertices[v].edge, breadcrumb |-> vertices[v].edge],
        << >>, Cardinality(DOMAIN edges) + 1)

\* The faces of the half-edges es[from..] that have one, in order.
RECURSIVE FacesOf(_, _)
FacesOf(es, from) ==
    IF from > Len(es) THEN << >>
    ELSE LET rec == Get(edges, es[from])
         IN  IF rec # None /\ rec[1].face # None
             THEN <<rec[1].face[1]>> \o FacesOf(es, from + 1)
             ELSE FacesOf(es, from + 1)

\* C36: where the circulation of the incoming edges of a vertex ends,
\* neighboring_faces of the vertex yields the faces of the incoming edges
\* that circulation yields, of each edge itself and in the same order,
\* leaving out the edges without a face and going on behind them, and
\* then nothing; on a closed mesh that is one face for each incoming edge.
C36_VertexFacesFollowIncoming ==
    circ.kind = "vertex_neighboring_faces" =>
        \/ LET ins == IncomingEdges(circ.seed)
               fs == FacesOf(ins.edges, 1)
           IN  ~ins.diverged =>
                   /\ IsPrefix(yields, fs)
                   /\ Ended => yields = fs
                   /\ yields = fs =>
                          vertex_FaceCirculator_next(circ).item = None
                   /\ Closed => Len(fs) = Len(ins.edges)
        \/ ~Consistent

\* A face was yielded from an incoming edge that comes after one without a
\* face.
C36_Witness ==
    /\ circ.kind = "vertex_neighboring_faces"
    /\ Consistent
    /\ Ended
    /\ LET ins == IncomingEdges(circ.seed).edges
       IN  /\ ~IncomingEdges(circ.seed).diverged
           /\ Len(yields) >= 1
           /\ \E i, j \in 1 .. Len(ins) :
                 /\ i < j
                 /\ edges[ins[i]].face = None
                 /\ edges[ins[j]].face = Some(yields[Len(yields)])

\* On a closed mesh every incoming edge gave its face.
C36_WitnessClosed ==
    /\ circ.kind = "vertex_neighboring_faces"
    /\ Consistent
    /\ Closed
    /\ Ended
    /\ Len(yields) = 3
    /\ Len(IncomingEdges(circ.seed).edges) = 3

-----------------------------------------------------------------------------
\* The circulators over storage of any content.  The circulators only ask
\* their storage for edges by key (AsStorage<Edge<G>>), so they can be given
\* storage whose links do not form loops or lead to keys that are not
\* stored, as the reachable_ views of a mesh under mutation do.

\* Half-edges in storage of any content.
NumStoredEdges == 2

StoredKeys == 1 .. NumStoredEdges
\* What a link can hold: nothing, a stored key, or a key that is not stored.
Links == {None} \cup { Some(k) : k \in 1 .. NumStoredEdges + 1 }

\* Storage of any content: the links of the half-edges, the edge of the one
\* face and the edge of the first vertex are any keys; the second vertex has
\* no edge.
InitStorage ==
    /\ edges \in [StoredKeys -> [vertex : {1}, opposite : Links, next : Links,
                                 face : {None}]]
    /\ \E k \in 1 .. NumStoredEdges + 1 :
          /\ faces = << [edge |-> k] >>
          /\ vertices = << [edge |-> Some(k), position |-> 1],
                           [edge |-> None, position |-> 2] >>
    /\ nextEdgeKey = NumStoredEdges + 1
    /\ nextFaceKey = 2
    /\ removals = 0
    /\ circ = Idle
    /\ yields = << >>
    /\ nones = 0
    /\ call = NoCall
    /\ InitIndexing(DefaultCapacity)

NextStorage ==
    \/ \E f \in DOMAIN faces : interior_edges(f)
    \/ \E v \in DOMAIN vertices : incoming_edges(v)
    \/ EdgeCirculator_Iterator_next
    \/ vertex_EdgeCirculator_Iterator_next
    \/ Drop

SpecStorage == InitStorage /\ [][NextStorage]_vars

\* C37: on storage of any content, after a call of next on the edge
\* circulator of a face or of a vertex has yielded nothing, every later
\* call on the same circulator yields nothing and leaves the edge and the
\* breadcrumb of the circulator as they are; and a circulator whose
\* breadcrumb is cleared or whose current edge is absent yields nothing.
C37_CirculatorsAreFused ==
    /\ [](circ.kind \in {"interior_edges", "incoming_edges"} =>
            /\ (circ.breadcrumb = None \/ circ.edge = None) =>
                   /\ face_EdgeCirculator_next(circ).item = None
                   /\ vertex_EdgeCirculator_next(circ).item = None
            /\ nones > 0 /\ circ.kind = "interior_edges" =>
                   circ.breadcrumb = None \/ circ.edge = None)
    /\ [][ (/\ circ.kind \in {"interior_edges", "incoming_edges"}
            /\ nones > 0
            /\ circ'.kind = circ.kind) =>
               /\ yields' = yields
               /\ nones' = nones + 1
               /\ circ' = circ ]_vars

\* A face's edge circulator yielded edges, then nothing, and nothing again
\* when asked once more.
C37_Witness ==
    /\ circ.kind = "interior_edges"
    /\ Len(yields) >= 2
    /\ nones >= 2
    /\ circ.breadcrumb = None

\* The same for the edge circulator of a vertex.
C37_WitnessVertex ==
    /\ circ.kind = "incoming_edges"
    /\ Len(yields) >= 2
    /\ nones >= 2

\* The chain of `next` links from seed, read from the storage directly: it
\* ends "closed" at an edge whose `next` is seed, "absent" at an edge with no
\* `next`, "unresolved" at a key that is not stored, and is a "cycle" when
\* none of these is met in more steps than there are edges.
RECURSIVE NextChain(_, _, _, _)
NextChain(seed, cur, acc, fuel) ==
    IF fuel = 0 THEN [edges |-> acc, end |-> "cycle"]
    ELSE IF cur \notin DOMAIN edges THEN [edges |-> acc, end |-> "unresolved"]
    ELSE IF edges[cur].next = None
    THEN [edges |-> Append(acc, cur), end |-> "absent"]
    ELSE IF edges[cur].next[1] = seed
    THEN [edges |-> Append(acc, cur), end |-> "closed"]
    ELSE NextChain(seed, edges[cur].next[1], Append(acc, cur), fuel - 1)

ChainOf(f) ==
    NextChain(faces[f].edge, faces[f].edge, << >>,
              MaxYields + Cardinality(DOMAIN edges) + 1)

\* Iterator::count on the edge circulator of face.rs: next is called until
\* it returns None; the count is given up after fuel items.
RECURSIVE reachable_interior_edges_count(_, _, _)
reachable_interior_edges_count(c, n, fuel) ==
    IF fuel = 0
    THEN [diverged |-> TRUE, count |-> n]
    ELSE LET r    == face_EdgeCirculator_next(c)
             item == IF r.item = None THEN None
                     ELSE IntoView(edges, r.item[1])
         IN  IF item = None
             THEN [diverged |-> FALSE, count |-> n]
             ELSE reachable_interior_edges_count(
                    [edge |-> r.edge, breadcrumb |-> r.breadcrumb],
                    n + 1, fuel - 1)

\* FaceView::reachable_arity
reachable_arity(f) ==
    reachable_interior_edges_count(
        [edge |-> Some(faces[f].edge), breadcrumb |-> Some(faces[f].edge)],
        0, MaxYields + Cardinality(DOMAIN edges) + 1)

\* The item the caller of Iterator::next on the edge circulator of a face
\* would get now.
NextItem ==
    LET r == face_EdgeCirculator_next(circ)
    IN  IF r.item = None THEN None ELSE IntoView(edges, r.item[1])

\* C38: on storage of any content the edge circulator of a face yields the
\* edges of the chain of `next` links from the face's edge, in order, and
\* yields nothing exactly after the edge whose `next` is the face's edge or
\* is absent, or at a key that is not stored.  Where the chain ends it
\* yields each edge of it once and reachable_arity is the length of the
\* chain; where the chain runs into a cycle without the face's edge it
\* never yields nothing and reachable_arity does not return.
C38_StopsOnlyAtSeedOrBrokenChain ==
    /\ \A f \in DOMAIN faces :
          LET ch == ChainOf(f)
          IN  IF ch.end = "cycle"
              THEN reachable_arity(f).diverged
              ELSE /\ ~reachable_arity(f).diverged
                   /\ reachable_arity(f).count = Len(ch.edges)
    /\ circ.kind = "interior_edges" =>
          LET ch == ChainOf(circ.seed)
          IN  /\ IsPrefix(yields, ch.edges)
              /\ Len(yields) < Len(ch.edges) =>
                     nones = 0 /\ NextItem = Some(ch.edges[Len(yields) + 1])
              /\ ch.end = "cycle" => nones = 0
              /\ ch.end # "cycle" =>
                     /\ yields = ch.edges => NextItem = None
                     /\ \A i, j \in 1 .. Len(yields) :
                            i # j => yields[i] # yields[j]

\* A chain that runs into a cycle without the face's edge has given more
\* edges than are stored.
C38_Witness ==
    /\ circ.kind = "interior_edges"
    /\ ChainOf(circ.seed).end = "cycle"
    /\ Len(yields) > Cardinality(DOMAIN edges) + 1
    /\ \E i, j \in 1 .. Len(yields) : i # j /\ yields[i] = yields[j]

\* A chain that ends at an edge without `next` was yielded once and the
\* circulator stopped.
C38_WitnessAbsent ==
    /\ circ.kind = "interior_edges"
    /\ ChainOf(circ.seed).end = "absent"
    /\ Len(yields) = 2
    /\ Ended

-----------------------------------------------------------------------------
\* Further properties of the indexers.

\* C39: after any calls of index on an LruIndexer no two entries of the
\* cache have equal keys, no two have the same index, and once a call was
\* made the last entry of the cache is the one of the key passed to the
\* most recent call.
C39_LruEntriesDistinctAndRecentLast ==
    LET lru == lruIndexer.lru
    IN  /\ \A i, j \in 1 .. Len(lru) :
              i # j => lru[i][1] # lru[j][1] /\ lru[i][2] # lru[j][2]
        /\ input # << >> =>
              /\ Len(lru) >= 1
              /\ lru[Len(lru)][1] = key_fn(input[Len(input)])

\* The most recent call hit an entry that was made before the entry now in
\* front of it, on a cache that has discarded an entry.
C39_Witness ==
    LET lru == lruIndexer.lru
    IN  /\ Len(lru) >= 2
        /\ lruOut[Len(lruOut)].vertex = None
        /\ lru[Len(lru)][2] < lru[Len(lru) - 1][2]
        /\ lruIndexer.n > Len(lru)

\* The stored index of key k in an LruIndexer that caches it.
StoredIndex(self, k) == LruIndexer_find(self, k)[1][2]

\* C40: a call of index with a key the HashIndexer has mapped leaves the
\* indexer as it is and returns the index mapped to the key without the
\* vertex; a call with a key the LruIndexer caches leaves its counter, its
\* capacity and the set of its entries as they are, returns the index
\* stored with the key without the vertex, and moves the entry of the key
\* to the last position, the other entries keeping their order.
C40_HitLeavesIndexerAlone ==
    [][ Len(input') = Len(input) + 1 =>
            LET key == key_fn(input'[Len(input')])
                lru == lruIndexer.lru
                after == lruIndexer'.lru
            IN  /\ key \in DOMAIN hashIndexer.hash =>
                      /\ hashIndexer' = hashIndexer
                      /\ hashOut'[Len(hashOut')] =
                            [index |-> hashIndexer.hash[key], vertex |-> None]
                /\ key \in CachedKeys(lruIndexer) =>
                      /\ lruIndexer'.n = lruIndexer.n
                      /\ lruIndexer'.capacity = lruIndexer.capacity
                      /\ CachedEntries(lruIndexer') = CachedEntries(lruIndexer)
                      /\ Len(after) = Len(lru)
                      /\ lruOut'[Len(lruOut')] =
                            [index |-> StoredIndex(lruIndexer, key),
                             vertex |-> None]
                      /\ after[Len(after)] =
                            <<key, StoredIndex(lruIndexer, key)>>
                      /\ SubSeq(after, 1, Len(after) - 1) =
                            Vec_remove(lru, LruIndexer_find(lruIndexer, key)[1][1])
      ]_vars

\* Both indexers were hit by the most recent call, the LruIndexer at the
\* first of three or more entries.
C40_Witness ==
    /\ input # << >>
    /\ hashOut[Len(hashOut)].vertex = None
    /\ lruOut[Len(lruOut)].vertex = None
    /\ Len(lruIndexer.lru) >= 3
    /\ \A i \in 1 .. Len(lruIndexer.lru) - 1 :
          lruIndexer.lru[i][2] > lruIndexer.lru[Len(lruIndexer.lru)][2]

====
